---- MODULE Spec2Model ----
(***************************************************************************)
(* A model of the AI website generator service (app.py,                    *)
(* website_structures.py, prompt_builder.py).                              *)
(*                                                                         *)
(* Python strings are modelled as sequences of one-character strings, so   *)
(* that substring tests, strip(), split(), replace() and the fallback      *)
(* regular expression are computed character by character, as the code     *)
(* computes them.                                                          *)
(***************************************************************************)
EXTENDS Naturals, Sequences, FiniteSets, TLC

VARIABLES
    text,            \* parser: the raw generated text (argument of parse_files_from_response)
    origin,          \* parser: the file set a synthetic document was emitted from (<<>> otherwise)
    lines,           \* parser: lines = text.split('\n')
    idx,             \* parser: number of lines already scanned by the for loop
    current_file,    \* parser: current_file
    in_code_block,   \* parser: in_code_block
    code_content,    \* parser: code_content (list of lines)
    files,           \* parser: files (dict path -> content)
    description,     \* classifier: the description argument
    structure_info,  \* classifier: the dict determine_website_structure returned
    pexels_api_key,  \* images: os.getenv('PEXELS_API_KEY')
    keywords,        \* images: the keywords argument of get_pexels_images
    kpos,            \* images: number of keywords the for loop has handled
    image_urls,      \* images: image_urls (list of records)
    http_log,        \* images: the keywords requests.get was issued for, in call order
    replies,         \* images: what the image API answered to each of those requests
    ret,             \* images: where get_pexels_images returns to
    request,         \* handler: the POST request, [endpoint, data] (data = request.json)
    project_type,    \* handler: project_type
    social_media,    \* handler: the social_media dict of the push handler
    contact,         \* handler: the contact dict of the push handler
    gemini,          \* environment: what model.generate_content does when called
    github,          \* environment: what GitHubManager.create_and_push does when called
    n_generate,      \* number of model.generate_content calls issued for the request
    n_push,          \* number of create_and_push calls issued for the request
    response,        \* handler: the response returned to the caller
    threads,         \* concurrent requests: per request its inputs, position and results
    frames,          \* concurrent requests: the local variables of the running calls
    branding,        \* prompt builder: the branding argument of get_structured_prompt
    filename,        \* prompt builder: filename (argument of build_file_instructions)
    instructions,    \* prompt builder: instructions = build_file_instructions(filename)
    files_section,   \* prompt builder: files_section
    fpos,            \* prompt builder: number of files the for loop has handled
    prompt,          \* prompt builder: the prompt text returned
    pc               \* control position of the running function / handler

parserVars == <<text, origin, lines, idx, current_file, in_code_block, code_content, files>>
classifierVars == <<description, structure_info>>
imageVars == <<pexels_api_key, keywords, kpos, image_urls, http_log, replies, ret>>

requestVars == <<request, project_type, social_media, contact, gemini, github,
                 n_generate, n_push, response>>

concurrentVars == <<threads, frames>>
composerVars == <<branding, filename, instructions, files_section, fpos, prompt>>

vars == <<parserVars, classifierVars, imageVars, requestVars, concurrentVars, composerVars, pc>>

(***************************************************************************)
(* Bounds of the model.                                                    *)
(***************************************************************************)
MaxChunks == 4
MaxFiles == 2
MaxWords == 3
MaxKeywords == 3
MaxParts == 4

(***************************************************************************)
(* Python string primitives.                                               *)
(***************************************************************************)
NL == "\n"
\* The backtick character (it cannot be written inside a TLA+ string).
BACKTICK == "<backtick>"
FENCE == <<BACKTICK, BACKTICK, BACKTICK>>
\* The em dash character (U+2014).
EM_DASH == "<em dash>"
FILE_MARKER == <<"F", "I", "L", "E", ":">>

\* str.strip() with no argument removes these (ASCII) whitespace characters.
Whitespace == {" ", "\t", "\n", "\r", "\f"}

Min(S) == CHOOSE x \in S : \A y \in S : x <= y

\* s[i:i+len(pat)] == pat, with i counted from 1.
MatchAt(s, pat, i) ==
    /\ i >= 1
    /\ i + Len(pat) - 1 <= Len(s)
    /\ \A k \in 1..Len(pat) : s[i + k - 1] = pat[k]

\* s.find(pat, from): the first position >= from where pat occurs, 0 if none.
Find(s, pat, from) ==
    LET hits == {i \in from..Len(s) : MatchAt(s, pat, i)}
    IN  IF hits = {} THEN 0 ELSE Min(hits)

\* pat in s
Contains(s, pat) == Find(s, pat, 1) # 0

\* s.startswith(pat)
StartsWith(s, pat) == MatchAt(s, pat, 1)

\* s.endswith(pat)
EndsWith(s, pat) == Len(pat) <= Len(s) /\ MatchAt(s, pat, Len(s) - Len(pat) + 1)

\* s[from:] with from counted from 1.
Tail_From(s, from) == SubSeq(s, from, Len(s))

\* s.strip()
Strip(s) ==
    LET keep == {i \in 1..Len(s) : s[i] \notin Whitespace}
    IN  IF keep = {} THEN <<>>
        ELSE SubSeq(s, Min(keep), CHOOSE j \in keep : \A k \in keep : k <= j)

\* s.replace(c, '') for a one-character c.
RECURSIVE RemoveChar(_, _)
RemoveChar(s, c) ==
    IF s = <<>> THEN <<>>
    ELSE IF Head(s) = c THEN RemoveChar(Tail(s), c)
         ELSE <<Head(s)>> \o RemoveChar(Tail(s), c)

\* sep.join(parts) for a one-character sep.
RECURSIVE Join(_, _)
Join(parts, sep) ==
    IF parts = <<>> THEN <<>>
    ELSE IF Len(parts) = 1 THEN parts[1]
         ELSE parts[1] \o <<sep>> \o Join(Tail(parts), sep)

\* A text written as its lines: the lines joined by newlines.
Text(ls) == Join(ls, NL)

\* s.split(sep) for a one-character sep: always at least one part.  The parts
\* left of the middle separator, then the parts right of it (the recursion stays
\* shallow on long texts).
RECURSIVE Split(_, _)
Split(s, sep) ==
    LET hits == {i \in 1..Len(s) : s[i] = sep}
    IN  IF hits = {} THEN <<s>>
        ELSE LET mid == CHOOSE i \in hits :
                           Cardinality({j \in hits : j < i}) = Cardinality(hits) \div 2
             IN  Split(SubSeq(s, 1, mid - 1), sep) \o Split(Tail_From(s, mid + 1), sep)

\* s.split(pat)[1] for a string s that contains pat: what lies between the first
\* occurrence of pat and the second one (or the end of s).
SplitSecond(s, pat) ==
    LET rest == Tail_From(s, Find(s, pat, 1) + Len(pat))
        nxt  == Find(rest, pat, 1)
    IN  IF nxt = 0 THEN rest ELSE SubSeq(rest, 1, nxt - 1)

\* A dict with key k bound to v (an existing binding of k is replaced).
DictPut(d, k, v) == [p \in DOMAIN d \cup {k} |-> IF p = k THEN v ELSE d[p]]

EmptyDict == [p \in {} |-> <<>>]

(***************************************************************************)
(* website_structures.py: the structure catalog and the keyword classifier.*)
(***************************************************************************)
UPPERCASE == <<"A", "B", "C", "D", "E", "F", "G", "H", "I", "J", "K", "L", "M",
               "N", "O", "P", "Q", "R", "S", "T", "U", "V", "W", "X", "Y", "Z">>
LOWERCASE == <<"a", "b", "c", "d", "e", "f", "g", "h", "i", "j", "k", "l", "m",
               "n", "o", "p", "q", "r", "s", "t", "u", "v", "w", "x", "y", "z">>

\* str.lower()
Lower(s) ==
    [i \in DOMAIN s |->
        IF \E k \in DOMAIN UPPERCASE : UPPERCASE[k] = s[i]
        THEN LOWERCASE[CHOOSE k \in DOMAIN UPPERCASE : UPPERCASE[k] = s[i]]
        ELSE s[i]]

\* any(word in s for word in words)
AnyWordIn(words, s) == \E k \in DOMAIN words : Contains(s, words[k])

\* has_auth = any(word in description_lower for word in [...])
AUTH_WORDS == <<
    <<"l", "o", "g", "i", "n">>,
    <<"s", "i", "g", "n", "u", "p">>,
    <<"a", "u", "t", "h", "e", "n", "t", "i", "c", "a", "t", "i", "o", "n">>,
    <<"u", "s", "e", "r", " ", "a", "c", "c", "o", "u", "n", "t">>,
    <<"r", "e", "g", "i", "s", "t", "e", "r">>,
    <<"d", "a", "s", "h", "b", "o", "a", "r", "d">>,
    <<"p", "r", "o", "f", "i", "l", "e">>,
    <<"s", "i", "g", "n", " ", "u", "p">>,
    <<"s", "i", "g", "n", " ", "i", "n">> >>

\* has_ecommerce
ECOMMERCE_WORDS == <<
    <<"s", "h", "o", "p">>,
    <<"s", "t", "o", "r", "e">>,
    <<"e", "c", "o", "m", "m", "e", "r", "c", "e">>,
    <<"e", "-", "c", "o", "m", "m", "e", "r", "c", "e">>,
    <<"p", "r", "o", "d", "u", "c", "t", "s">>,
    <<"c", "a", "r", "t">>,
    <<"b", "u", "y">>,
    <<"s", "e", "l", "l">>,
    <<"c", "h", "e", "c", "k", "o", "u", "t">>,
    <<"p", "a", "y", "m", "e", "n", "t">> >>

\* has_blog
BLOG_WORDS == <<
    <<"b", "l", "o", "g">>,
    <<"a", "r", "t", "i", "c", "l", "e", "s">>,
    <<"p", "o", "s", "t", "s">>,
    <<"c", "m", "s">>,
    <<"c", "o", "n", "t", "e", "n", "t", " ", "m", "a", "n", "a", "g", "e", "m", "e", "n", "t">> >>

\* has_portfolio
PORTFOLIO_WORDS == <<
    <<"p", "o", "r", "t", "f", "o", "l", "i", "o">>,
    <<"s", "h", "o", "w", "c", "a", "s", "e">>,
    <<"g", "a", "l", "l", "e", "r", "y">>,
    <<"p", "r", "o", "j", "e", "c", "t", "s">>,
    <<"w", "o", "r", "k">> >>

\* has_multipage
MULTIPAGE_WORDS == <<
    <<"p", "a", "g", "e", "s">>,
    <<"a", "b", "o", "u", "t", " ", "p", "a", "g", "e">>,
    <<"c", "o", "n", "t", "a", "c", "t", " ", "p", "a", "g", "e">>,
    <<"m", "u", "l", "t", "i", "p", "l", "e", " ", "p", "a", "g", "e", "s">>,
    <<"n", "a", "v", "i", "g", "a", "t", "i", "o", "n">>,
    <<"m", "e", "n", "u">>,
    <<"s", "e", "r", "v", "i", "c", "e", "s", " ", "p", "a", "g", "e">> >>

\* get_landing_page_structure()['files']
LANDING_PAGE_FILES == <<
    <<"i", "n", "d", "e", "x", ".", "h", "t", "m", "l">>,
    <<"s", "t", "y", "l", "e", ".", "c", "s", "s">>,
    <<"s", "c", "r", "i", "p", "t", ".", "j", "s">> >>

\* get_multi_page_structure()['files']
MULTI_PAGE_FILES == <<
    <<"i", "n", "d", "e", "x", ".", "h", "t", "m", "l">>,
    <<"a", "b", "o", "u", "t", ".", "h", "t", "m", "l">>,
    <<"s", "e", "r", "v", "i", "c", "e", "s", ".", "h", "t", "m", "l">>,
    <<"c", "o", "n", "t", "a", "c", "t", ".", "h", "t", "m", "l">>,
    <<"c", "s", "s", "/", "s", "t", "y", "l", "e", ".", "c", "s", "s">>,
    <<"c", "s", "s", "/", "r", "e", "s", "p", "o", "n", "s", "i", "v", "e", ".", "c", "s", "s">>,
    <<"j", "s", "/", "s", "c", "r", "i", "p", "t", ".", "j", "s">>,
    <<"j", "s", "/", "n", "a", "v", "i", "g", "a", "t", "i", "o", "n", ".", "j", "s">> >>

\* A portfolio manifest that is the multi-page manifest with five paths added.
PORTFOLIO_FILES_extended == <<
    <<"i", "n", "d", "e", "x", ".", "h", "t", "m", "l">>,
    <<"a", "b", "o", "u", "t", ".", "h", "t", "m", "l">>,
    <<"s", "e", "r", "v", "i", "c", "e", "s", ".", "h", "t", "m", "l">>,
    <<"c", "o", "n", "t", "a", "c", "t", ".", "h", "t", "m", "l">>,
    <<"c", "s", "s", "/", "s", "t", "y", "l", "e", ".", "c", "s", "s">>,
    <<"c", "s", "s", "/", "r", "e", "s", "p", "o", "n", "s", "i", "v", "e", ".", "c", "s", "s">>,
    <<"j", "s", "/", "s", "c", "r", "i", "p", "t", ".", "j", "s">>,
    <<"j", "s", "/", "n", "a", "v", "i", "g", "a", "t", "i", "o", "n", ".", "j", "s">>,
    <<"p", "r", "o", "j", "e", "c", "t", "s", ".", "h", "t", "m", "l">>,
    <<"p", "r", "o", "j", "e", "c", "t", "-", "d", "e", "t", "a", "i", "l", ".", "h", "t", "m", "l">>,
    <<"c", "s", "s", "/", "p", "r", "o", "j", "e", "c", "t", "s", ".", "c", "s", "s">>,
    <<"j", "s", "/", "p", "r", "o", "j", "e", "c", "t", "s", ".", "j", "s">>,
    <<"j", "s", "/", "f", "i", "l", "t", "e", "r", ".", "j", "s">> >>

\* get_portfolio_structure()['files']
PORTFOLIO_FILES == <<
    <<"i", "n", "d", "e", "x", ".", "h", "t", "m", "l">>,
    <<"a", "b", "o", "u", "t", ".", "h", "t", "m", "l">>,
    <<"p", "r", "o", "j", "e", "c", "t", "s", ".", "h", "t", "m", "l">>,
    <<"p", "r", "o", "j", "e", "c", "t", "-", "d", "e", "t", "a", "i", "l", ".", "h", "t", "m", "l">>,
    <<"c", "o", "n", "t", "a", "c", "t", ".", "h", "t", "m", "l">>,
    <<"c", "s", "s", "/", "s", "t", "y", "l", "e", ".", "c", "s", "s">>,
    <<"c", "s", "s", "/", "p", "r", "o", "j", "e", "c", "t", "s", ".", "c", "s", "s">>,
    <<"j", "s", "/", "s", "c", "r", "i", "p", "t", ".", "j", "s">>,
    <<"j", "s", "/", "p", "r", "o", "j", "e", "c", "t", "s", ".", "j", "s">>,
    <<"j", "s", "/", "f", "i", "l", "t", "e", "r", ".", "j", "s">> >>

\* A blog manifest with about.html before article.html.
BLOG_FILES_reordered == <<
    <<"i", "n", "d", "e", "x", ".", "h", "t", "m", "l">>,
    <<"a", "b", "o", "u", "t", ".", "h", "t", "m", "l">>,
    <<"a", "r", "t", "i", "c", "l", "e", ".", "h", "t", "m", "l">>,
    <<"c", "o", "n", "t", "a", "c", "t", ".", "h", "t", "m", "l">>,
    <<"c", "s", "s", "/", "s", "t", "y", "l", "e", ".", "c", "s", "s">>,
    <<"c", "s", "s", "/", "b", "l", "o", "g", ".", "c", "s", "s">>,
    <<"j", "s", "/", "s", "c", "r", "i", "p", "t", ".", "j", "s">>,
    <<"j", "s", "/", "b", "l", "o", "g", ".", "j", "s">> >>

\* get_blog_structure()['files']
BLOG_FILES == <<
    <<"i", "n", "d", "e", "x", ".", "h", "t", "m", "l">>,
    <<"a", "r", "t", "i", "c", "l", "e", ".", "h", "t", "m", "l">>,
    <<"a", "b", "o", "u", "t", ".", "h", "t", "m", "l">>,
    <<"c", "o", "n", "t", "a", "c", "t", ".", "h", "t", "m", "l">>,
    <<"c", "s", "s", "/", "s", "t", "y", "l", "e", ".", "c", "s", "s">>,
    <<"c", "s", "s", "/", "b", "l", "o", "g", ".", "c", "s", "s">>,
    <<"j", "s", "/", "s", "c", "r", "i", "p", "t", ".", "j", "s">>,
    <<"j", "s", "/", "b", "l", "o", "g", ".", "j", "s">> >>

\* get_webapp_structure()['files']
WEBAPP_FILES == <<
    <<"p", "u", "b", "l", "i", "c", "/", "i", "n", "d", "e", "x", ".", "h", "t", "m", "l">>,
    <<"p", "u", "b", "l", "i", "c", "/", "l", "o", "g", "i", "n", ".", "h", "t", "m", "l">>,
    <<"p", "u", "b", "l", "i", "c", "/", "s", "i", "g", "n", "u", "p", ".", "h", "t", "m", "l">>,
    <<"p", "u", "b", "l", "i", "c", "/", "d", "a", "s", "h", "b", "o", "a", "r", "d", ".", "h", "t", "m", "l">>,
    <<"p", "u", "b", "l", "i", "c", "/", "c", "s", "s", "/", "s", "t", "y", "l", "e", ".", "c", "s", "s">>,
    <<"p", "u", "b", "l", "i", "c", "/", "c", "s", "s", "/", "a", "u", "t", "h", ".", "c", "s", "s">>,
    <<"p", "u", "b", "l", "i", "c", "/", "c", "s", "s", "/", "d", "a", "s", "h", "b", "o", "a", "r", "d", ".", "c", "s", "s">>,
    <<"p", "u", "b", "l", "i", "c", "/", "j", "s", "/", "m", "a", "i", "n", ".", "j", "s">>,
    <<"p", "u", "b", "l", "i", "c", "/", "j", "s", "/", "a", "u", "t", "h", ".", "j", "s">>,
    <<"p", "u", "b", "l", "i", "c", "/", "j", "s", "/", "d", "a", "s", "h", "b", "o", "a", "r", "d", ".", "j", "s">>,
    <<"b", "a", "c", "k", "e", "n", "d", "/", "s", "e", "r", "v", "e", "r", ".", "j", "s">>,
    <<"b", "a", "c", "k", "e", "n", "d", "/", "r", "o", "u", "t", "e", "s", "/", "a", "u", "t", "h", ".", "j", "s">>,
    <<"b", "a", "c", "k", "e", "n", "d", "/", "r", "o", "u", "t", "e", "s", "/", "u", "s", "e", "r", "s", ".", "j", "s">>,
    <<"b", "a", "c", "k", "e", "n", "d", "/", "m", "o", "d", "e", "l", "s", "/", "U", "s", "e", "r", ".", "j", "s">>,
    <<"b", "a", "c", "k", "e", "n", "d", "/", "m", "i", "d", "d", "l", "e", "w", "a", "r", "e", "/", "a", "u", "t", "h", ".", "j", "s">>,
    <<"b", "a", "c", "k", "e", "n", "d", "/", "c", "o", "n", "f", "i", "g", "/", "d", "b", ".", "j", "s">>,
    <<"p", "a", "c", "k", "a", "g", "e", ".", "j", "s", "o", "n">>,
    <<".", "e", "n", "v", ".", "e", "x", "a", "m", "p", "l", "e">>,
    <<".", "g", "i", "t", "i", "g", "n", "o", "r", "e">>,
    <<"R", "E", "A", "D", "M", "E", ".", "m", "d">> >>

\* get_ecommerce_structure()['files']
ECOMMERCE_FILES == <<
    <<"i", "n", "d", "e", "x", ".", "h", "t", "m", "l">>,
    <<"p", "r", "o", "d", "u", "c", "t", "s", ".", "h", "t", "m", "l">>,
    <<"p", "r", "o", "d", "u", "c", "t", "-", "d", "e", "t", "a", "i", "l", ".", "h", "t", "m", "l">>,
    <<"c", "a", "r", "t", ".", "h", "t", "m", "l">>,
    <<"c", "h", "e", "c", "k", "o", "u", "t", ".", "h", "t", "m", "l">>,
    <<"l", "o", "g", "i", "n", ".", "h", "t", "m", "l">>,
    <<"s", "i", "g", "n", "u", "p", ".", "h", "t", "m", "l">>,
    <<"a", "c", "c", "o", "u", "n", "t", ".", "h", "t", "m", "l">>,
    <<"c", "s", "s", "/", "s", "t", "y", "l", "e", ".", "c", "s", "s">>,
    <<"c", "s", "s", "/", "p", "r", "o", "d", "u", "c", "t", "s", ".", "c", "s", "s">>,
    <<"c", "s", "s", "/", "c", "a", "r", "t", ".", "c", "s", "s">>,
    <<"j", "s", "/", "p", "r", "o", "d", "u", "c", "t", "s", ".", "j", "s">>,
    <<"j", "s", "/", "c", "a", "r", "t", ".", "j", "s">>,
    <<"j", "s", "/", "c", "h", "e", "c", "k", "o", "u", "t", ".", "j", "s">>,
    <<"b", "a", "c", "k", "e", "n", "d", "/", "s", "e", "r", "v", "e", "r", ".", "j", "s">>,
    <<"b", "a", "c", "k", "e", "n", "d", "/", "r", "o", "u", "t", "e", "s", "/", "p", "r", "o", "d", "u", "c", "t", "s", ".", "j", "s">>,
    <<"b", "a", "c", "k", "e", "n", "d", "/", "r", "o", "u", "t", "e", "s", "/", "c", "a", "r", "t", ".", "j", "s">>,
    <<"b", "a", "c", "k", "e", "n", "d", "/", "r", "o", "u", "t", "e", "s", "/", "o", "r", "d", "e", "r", "s", ".", "j", "s">>,
    <<"b", "a", "c", "k", "e", "n", "d", "/", "m", "o", "d", "e", "l", "s", "/", "P", "r", "o", "d", "u", "c", "t", ".", "j", "s">>,
    <<"b", "a", "c", "k", "e", "n", "d", "/", "m", "o", "d", "e", "l", "s", "/", "O", "r", "d", "e", "r", ".", "j", "s">>,
    <<"b", "a", "c", "k", "e", "n", "d", "/", "m", "o", "d", "e", "l", "s", "/", "U", "s", "e", "r", ".", "j", "s">>,
    <<"p", "a", "c", "k", "a", "g", "e", ".", "j", "s", "o", "n">>,
    <<"R", "E", "A", "D", "M", "E", ".", "m", "d">>,
    <<"d", "a", "t", "a", "b", "a", "s", "e", "/", "s", "c", "h", "e", "m", "a", ".", "s", "q", "l">> >>

\* The branch a description takes when the auth keywords are tested first.
StructureType_auth_first(d) ==
    LET description_lower == Lower(d)
    IN  IF AnyWordIn(AUTH_WORDS, description_lower) THEN "web_application"
        ELSE IF AnyWordIn(ECOMMERCE_WORDS, description_lower) THEN "ecommerce"
        ELSE IF AnyWordIn(BLOG_WORDS, description_lower) THEN "blog"
        ELSE IF AnyWordIn(PORTFOLIO_WORDS, description_lower) THEN "portfolio"
        ELSE IF AnyWordIn(MULTIPAGE_WORDS, description_lower) THEN "multi_page"
        ELSE "landing_page"

\* The if / elif chain of determine_website_structure: which branch returns.
StructureType(d) ==
    LET description_lower == Lower(d)
        has_auth == AnyWordIn(AUTH_WORDS, description_lower)
        has_ecommerce == AnyWordIn(ECOMMERCE_WORDS, description_lower)
        has_blog == AnyWordIn(BLOG_WORDS, description_lower)
        has_portfolio == AnyWordIn(PORTFOLIO_WORDS, description_lower)
        has_multipage == AnyWordIn(MULTIPAGE_WORDS, description_lower)
    IN  IF has_ecommerce THEN "ecommerce"
        ELSE IF has_auth THEN "web_application"
        ELSE IF has_blog THEN "blog"
        ELSE IF has_portfolio THEN "portfolio"
        ELSE IF has_multipage THEN "multi_page"
        ELSE "landing_page"

\* A catalog in which the blog is said to need a backend.
StructureOf_blog_backend(type) ==
    [type |-> type,
     files |-> CASE type = "ecommerce" -> ECOMMERCE_FILES
                 [] type = "web_application" -> WEBAPP_FILES
                 [] type = "blog" -> BLOG_FILES
                 [] type = "portfolio" -> PORTFOLIO_FILES
                 [] type = "multi_page" -> MULTI_PAGE_FILES
                 [] type = "landing_page" -> LANDING_PAGE_FILES,
     needs_backend |-> type \in {"ecommerce", "web_application", "blog"},
     needs_database |-> type \in {"ecommerce", "web_application"}]

\* The dict each branch returns (the two free-text entries, 'description' and the
\* framework names, are left out: nothing branches on them).
StructureOf(type) ==
    CASE type = "ecommerce" ->
           [type |-> type, files |-> ECOMMERCE_FILES, needs_backend |-> TRUE, needs_database |-> TRUE]
      [] type = "web_application" ->
           [type |-> type, files |-> WEBAPP_FILES, needs_backend |-> TRUE, needs_database |-> TRUE]
      [] type = "blog" ->
           [type |-> type, files |-> BLOG_FILES, needs_backend |-> FALSE, needs_database |-> FALSE]
      [] type = "portfolio" ->
           [type |-> type, files |-> PORTFOLIO_FILES, needs_backend |-> FALSE, needs_database |-> FALSE]
      [] type = "multi_page" ->
           [type |-> type, files |-> MULTI_PAGE_FILES, needs_backend |-> FALSE, needs_database |-> FALSE]
      [] type = "landing_page" ->
           [type |-> type, files |-> LANDING_PAGE_FILES, needs_backend |-> FALSE, needs_database |-> FALSE]

determine_website_structure(d) == StructureOf(StructureType(d))

\* No structure computed yet.
NoStructure == [type |-> "<None>"]

\* structure_info = determine_website_structure(description)
Classify ==
    /\ pc = "classify"
    /\ structure_info' = determine_website_structure(description)
    /\ pc' = "classified"
    /\ UNCHANGED <<description, parserVars, imageVars, requestVars>>
    /\ UNCHANGED <<concurrentVars, composerVars>>

NextClassify == Classify

ClassifierUnused ==
    /\ description = <<>>
    /\ structure_info = NoStructure

(***************************************************************************)
(* app.py: extract_keywords_from_description and get_pexels_images.        *)
(***************************************************************************)
\* keyword_map, in insertion order: each entry is <<topic, keywords>>.
KEYWORD_MAP == <<
    << <<"c", "o", "f", "f", "e", "e">>,
       << <<"c", "o", "f", "f", "e", "e">>,
          <<"c", "a", "f", "e">>,
          <<"e", "s", "p", "r", "e", "s", "s", "o">>,
          <<"l", "a", "t", "t", "e">>,
          <<"b", "a", "r", "i", "s", "t", "a">> >> >>,
    << <<"r", "e", "s", "t", "a", "u", "r", "a", "n", "t">>,
       << <<"r", "e", "s", "t", "a", "u", "r", "a", "n", "t">>,
          <<"f", "o", "o", "d">>,
          <<"d", "i", "n", "i", "n", "g">>,
          <<"c", "u", "i", "s", "i", "n", "e">>,
          <<"c", "h", "e", "f">> >> >>,
    << <<"p", "o", "r", "t", "f", "o", "l", "i", "o">>,
       << <<"o", "f", "f", "i", "c", "e">>,
          <<"w", "o", "r", "k", "s", "p", "a", "c", "e">>,
          <<"p", "r", "o", "f", "e", "s", "s", "i", "o", "n", "a", "l">>,
          <<"d", "e", "s", "k">>,
          <<"m", "o", "d", "e", "r", "n">> >> >>,
    << <<"p", "h", "o", "t", "o", "g", "r", "a", "p", "h", "y">>,
       << <<"c", "a", "m", "e", "r", "a">>,
          <<"p", "h", "o", "t", "o", "g", "r", "a", "p", "h", "y">>,
          <<"p", "h", "o", "t", "o", "s">>,
          <<"g", "a", "l", "l", "e", "r", "y">>,
          <<"a", "r", "t">> >> >>,
    << <<"f", "i", "t", "n", "e", "s", "s">>,
       << <<"f", "i", "t", "n", "e", "s", "s">>,
          <<"g", "y", "m">>,
          <<"w", "o", "r", "k", "o", "u", "t">>,
          <<"e", "x", "e", "r", "c", "i", "s", "e">>,
          <<"h", "e", "a", "l", "t", "h">> >> >>,
    << <<"t", "e", "c", "h">>,
       << <<"t", "e", "c", "h", "n", "o", "l", "o", "g", "y">>,
          <<"c", "o", "m", "p", "u", "t", "e", "r">>,
          <<"c", "o", "d", "i", "n", "g">>,
          <<"s", "t", "a", "r", "t", "u", "p">>,
          <<"i", "n", "n", "o", "v", "a", "t", "i", "o", "n">> >> >>,
    << <<"f", "a", "s", "h", "i", "o", "n">>,
       << <<"f", "a", "s", "h", "i", "o", "n">>,
          <<"c", "l", "o", "t", "h", "i", "n", "g">>,
          <<"s", "t", "y", "l", "e">>,
          <<"b", "o", "u", "t", "i", "q", "u", "e">>,
          <<"s", "h", "o", "p", "p", "i", "n", "g">> >> >>,
    << <<"t", "r", "a", "v", "e", "l">>,
       << <<"t", "r", "a", "v", "e", "l">>,
          <<"v", "a", "c", "a", "t", "i", "o", "n">>,
          <<"d", "e", "s", "t", "i", "n", "a", "t", "i", "o", "n">>,
          <<"a", "d", "v", "e", "n", "t", "u", "r", "e">>,
          <<"b", "e", "a", "c", "h">> >> >>,
    << <<"f", "o", "o", "d">>,
       << <<"f", "o", "o", "d">>,
          <<"c", "o", "o", "k", "i", "n", "g">>,
          <<"i", "n", "g", "r", "e", "d", "i", "e", "n", "t", "s">>,
          <<"k", "i", "t", "c", "h", "e", "n">>,
          <<"r", "e", "c", "i", "p", "e">> >> >>,
    << <<"s", "h", "o", "p">>,
       << <<"s", "t", "o", "r", "e">>,
          <<"s", "h", "o", "p", "p", "i", "n", "g">>,
          <<"p", "r", "o", "d", "u", "c", "t", "s">>,
          <<"r", "e", "t", "a", "i", "l">>,
          <<"d", "i", "s", "p", "l", "a", "y">> >> >> >>

\* matched_keywords = ['modern', 'business', 'professional']
GENERAL_KEYWORDS == << <<"m", "o", "d", "e", "r", "n">>, <<"b", "u", "s", "i", "n", "e", "s", "s">>, <<"p", "r", "o", "f", "e", "s", "s", "i", "o", "n", "a", "l">> >>

\* The loop without its break: every matching topic adds its first three keywords.
RECURSIVE KeywordsOfAllTopics(_, _)
KeywordsOfAllTopics(d, i) ==
    IF i > Len(KEYWORD_MAP) THEN <<>>
    ELSE (IF Contains(Lower(d), KEYWORD_MAP[i][1])
          THEN SubSeq(KEYWORD_MAP[i][2], 1, 3) ELSE <<>>)
         \o KeywordsOfAllTopics(d, i + 1)

extract_keywords_without_break(d) ==
    IF KeywordsOfAllTopics(d, 1) = <<>> THEN GENERAL_KEYWORDS
    ELSE KeywordsOfAllTopics(d, 1)

\* for topic, keywords in keyword_map.items(): if topic in description_lower:
\*     matched_keywords.extend(keywords[:3]); break
extract_keywords_from_description(d) ==
    LET description_lower == Lower(d)
        hits == {i \in DOMAIN KEYWORD_MAP : Contains(description_lower, KEYWORD_MAP[i][1])}
    IN  IF hits = {} THEN GENERAL_KEYWORDS
        ELSE SubSeq(KEYWORD_MAP[Min(hits)][2], 1, 3)

\* os.getenv gives None when the variable is not set.
NoKey == <<"<None>">>

\* if not pexels_api_key: None and '' are both false.
KeyMissing(key) == key = NoKey \/ key = <<>>

\* What the image API can do with one request:
\*   network_error  requests.get raises (timeout, connection error)
\*   status         a response whose status_code is not 200
\*   bad_json       status 200, response.json() raises
\*   ok             status 200, a JSON object with 'photos'; a photo with no 'src'
\*                  makes photo['src']['large'] raise KeyError
GoodPhoto(n) == [src |-> <<"u", "r", "l">> \o <<n>>, photographer |-> <<"p">> \o <<n>>]
BadPhoto == [photographer |-> <<"q">>]

Replies == {
    [kind |-> "network_error"],
    [kind |-> "status", status_code |-> 404],
    [kind |-> "bad_json", status_code |-> 200],
    [kind |-> "ok", status_code |-> 200, photos |-> <<GoodPhoto("1"), GoodPhoto("2")>>],
    [kind |-> "ok", status_code |-> 200, photos |-> <<GoodPhoto("3"), BadPhoto>>] }

\* for photo in data.get('photos', []): image_urls.append({...}) -- the records
\* appended before a photo raises, and whether one raised.
RECURSIVE AppendPhotos(_, _)
AppendPhotos(photos, keyword) ==
    IF photos = <<>> THEN [added |-> <<>>, raised |-> FALSE]
    ELSE IF "src" \notin DOMAIN Head(photos) THEN [added |-> <<>>, raised |-> TRUE]
    ELSE LET rest == AppendPhotos(Tail(photos), keyword)
         IN  [added |-> <<[url |-> Head(photos).src, keyword |-> keyword,
                           photographer |-> Head(photos).photographer]>> \o rest.added,
              raised |-> rest.raised]

\* The body of the try block for one keyword: the records it appends and whether
\* an exception was raised inside it.
TryKeyword(keyword, reply) ==
    IF reply.kind = "network_error" THEN [added |-> <<>>, raised |-> TRUE]
    ELSE IF reply.status_code # 200 THEN [added |-> <<>>, raised |-> FALSE]
    ELSE IF reply.kind = "bad_json" THEN [added |-> <<>>, raised |-> TRUE]
    ELSE AppendPhotos(reply.photos, keyword)

\* The loop body without its try / except: nothing is caught.
ExceptionCaught_nothing(reply) == FALSE

\* except Exception as e: print(...); continue -- every exception raised in the
\* try block is caught, the loop goes on with the next keyword.
ExceptionCaught(reply) == TRUE

\* pexels_api_key = os.getenv(...); if not pexels_api_key: return []
PexelsEnter ==
    /\ pc = "pexels_enter"
    /\ image_urls' = <<>>
    /\ kpos' = 0
    /\ pc' = IF KeyMissing(pexels_api_key) THEN ret ELSE "pexels_loop"
    /\ UNCHANGED <<pexels_api_key, keywords, http_log, replies, ret>>
    /\ UNCHANGED <<parserVars, classifierVars, requestVars>>
    /\ UNCHANGED <<concurrentVars, composerVars>>

\* for keyword in keywords: one iteration, the request and what comes of it.
PexelsFetch ==
    /\ pc = "pexels_loop"
    /\ kpos < Len(keywords)
    /\ \E reply \in Replies :
          LET keyword == keywords[kpos + 1]
              got == TryKeyword(keyword, reply)
          IN  /\ http_log' = Append(http_log, keyword)
              /\ replies' = Append(replies, reply)
              /\ image_urls' = image_urls \o got.added
              /\ pc' = IF got.raised /\ ~ExceptionCaught(reply)
                       THEN "pexels_raised" ELSE "pexels_loop"
    /\ kpos' = kpos + 1
    /\ UNCHANGED <<pexels_api_key, keywords, ret>>
    /\ UNCHANGED <<parserVars, classifierVars, requestVars>>
    /\ UNCHANGED <<concurrentVars, composerVars>>

\* return image_urls
PexelsReturn ==
    /\ pc = "pexels_loop"
    /\ kpos = Len(keywords)
    /\ pc' = ret
    /\ UNCHANGED imageVars
    /\ UNCHANGED <<parserVars, classifierVars, requestVars>>
    /\ UNCHANGED <<concurrentVars, composerVars>>

\* keywords = extract_keywords_from_description(description), called on its own.
ExtractKeywords ==
    /\ pc = "extract"
    /\ keywords' = extract_keywords_from_description(description)
    /\ pc' = "extracted"
    /\ UNCHANGED <<pexels_api_key, kpos, image_urls, http_log, replies, ret>>
    /\ UNCHANGED <<parserVars, classifierVars, requestVars>>
    /\ UNCHANGED <<concurrentVars, composerVars>>

NextKeywords == ExtractKeywords

NextImages == PexelsEnter \/ PexelsFetch \/ PexelsReturn

ImagesUnused ==
    /\ pexels_api_key = NoKey
    /\ keywords = <<>>
    /\ kpos = 0
    /\ image_urls = <<>>
    /\ http_log = <<>>
    /\ replies = <<>>
    /\ ret = "none"

(***************************************************************************)
(* parse_files_from_response: Method 1, the line loop.                     *)
(***************************************************************************)
\* current_file = None
NoFile == <<"<None>">>

\* Truth value of current_file: None and '' are both false.
Truthy(f) == f # NoFile /\ f # <<>>

\* The state of the loop before its first line.
ParserStart == [current_file |-> NoFile, in_code_block |-> FALSE,
                code_content |-> <<>>, files |-> EmptyDict]

\* A variant that saves the joined lines as they are: '\n'.join(code_content)
Flush_untrimmed(st) ==
    IF Truthy(st.current_file) /\ st.code_content # <<>>
    THEN DictPut(st.files, st.current_file, Join(st.code_content, NL))
    ELSE st.files

\* A variant that adds to the content a path already has instead of replacing it.
Flush_appending(st) ==
    IF Truthy(st.current_file) /\ st.code_content # <<>>
    THEN DictPut(st.files, st.current_file,
                 (IF st.current_file \in DOMAIN st.files
                  THEN st.files[st.current_file] \o <<NL>> ELSE <<>>)
                 \o Strip(Join(st.code_content, NL)))
    ELSE st.files

\* if current_file and code_content: files[current_file] = '\n'.join(code_content).strip()
Flush(st) ==
    IF Truthy(st.current_file) /\ st.code_content # <<>>
    THEN DictPut(st.files, st.current_file, Strip(Join(st.code_content, NL)))
    ELSE st.files

\* A variant that keeps the blanks around the name: line.split('FILE:')[1].replace(BACKTICK, '')
FileNameOf_untrimmed(line) == RemoveChar(SplitSecond(line, FILE_MARKER), BACKTICK)

\* A variant that leaves the backticks in the name: line.split('FILE:')[1].strip()
FileNameOf_with_backticks(line) == Strip(SplitSecond(line, FILE_MARKER))

\* line.split('FILE:')[1].strip().replace(BACKTICK, '').strip()
FileNameOf(line) == Strip(RemoveChar(Strip(SplitSecond(line, FILE_MARKER)), BACKTICK))

\* A variant that collects every line after a marker, in a code block or not.
ParseLine_collects_outside(st, line) ==
    IF Contains(line, FILE_MARKER)
    THEN [current_file |-> FileNameOf(line), in_code_block |-> FALSE,
          code_content |-> <<>>, files |-> Flush(st)]
    ELSE IF StartsWith(Strip(line), FENCE)
    THEN [st EXCEPT !.in_code_block = ~st.in_code_block]
    ELSE IF Truthy(st.current_file)
    THEN [st EXCEPT !.code_content = Append(st.code_content, line)]
    ELSE st

\* A variant that reads a marker line inside an open code block as content.
ParseLine_marker_in_block(st, line) ==
    IF Contains(line, FILE_MARKER) /\ ~st.in_code_block
    THEN [current_file |-> FileNameOf(line), in_code_block |-> FALSE,
          code_content |-> <<>>, files |-> Flush(st)]
    ELSE IF StartsWith(Strip(line), FENCE)
    THEN [st EXCEPT !.in_code_block = ~st.in_code_block]
    ELSE IF st.in_code_block /\ Truthy(st.current_file)
    THEN [st EXCEPT !.code_content = Append(st.code_content, line)]
    ELSE st

\* One iteration of "for line in lines".
ParseLine(st, line) ==
    IF Contains(line, FILE_MARKER)
    THEN [current_file |-> FileNameOf(line), in_code_block |-> FALSE,
          code_content |-> <<>>, files |-> Flush(st)]
    ELSE IF StartsWith(Strip(line), FENCE)
    THEN [st EXCEPT !.in_code_block = ~st.in_code_block]
    ELSE IF st.in_code_block /\ Truthy(st.current_file)
    THEN [st EXCEPT !.code_content = Append(st.code_content, line)]
    ELSE st

(***************************************************************************)
(* parse_files_from_response: Method 2, the fallback regular expression    *)
(*   FENCE (?:html|css|javascript|js|json)? \n (.*?) FENCE    with DOTALL.  *)
(***************************************************************************)
FenceTags == << <<"h", "t", "m", "l">>, <<"c", "s", "s">>,
                <<"j", "a", "v", "a", "s", "c", "r", "i", "p", "t">>,
                <<"j", "s">>, <<"j", "s", "o", "n">> >>

\* A variant in which the tag is not optional: the positions after one of the five
\* tags that are followed by the newline.
BodyStart_tag_required(s, p) ==
    LET afterTag == {p + 3 + Len(FenceTags[t]) : t \in {u \in DOMAIN FenceTags :
                                                        MatchAt(s, FenceTags[u], p + 3)}}
        ok == {e \in afterTag : e <= Len(s) /\ s[e] = NL}
    IN  IF ok = {} THEN 0 ELSE Min(ok) + 1

\* With the fence matched at p: the positions the regex can stand at after the
\* optional tag, and of those the ones followed by the newline it requires.
\* The result is the position where group 1 starts, 0 when the opener fails.
BodyStart(s, p) ==
    LET afterTag == {p + 3} \cup
                    {p + 3 + Len(FenceTags[t]) : t \in {u \in DOMAIN FenceTags :
                                                        MatchAt(s, FenceTags[u], p + 3)}}
        ok == {e \in afterTag : e <= Len(s) /\ s[e] = NL}
    IN  IF ok = {} THEN 0 ELSE Min(ok) + 1

\* Whether the whole pattern matches with its fence at p.
RegexMatchesAt(s, p) ==
    /\ MatchAt(s, FENCE, p)
    /\ BodyStart(s, p) # 0
    /\ Find(s, FENCE, BodyStart(s, p)) # 0

\* re.findall(pattern, s, re.DOTALL), scanning from position from: the group-1
\* text of each non-overlapping match, leftmost first, each match lazy.
RECURSIVE FindAllBlocks(_, _)
FindAllBlocks(s, from) ==
    LET starts == {p \in from..Len(s) : RegexMatchesAt(s, p)}
    IN  IF starts = {} THEN <<>>
        ELSE LET p == Min(starts)
                 b == BodyStart(s, p)
                 q == Find(s, FENCE, b)
             IN  <<SubSeq(s, b, q - 1)>> \o FindAllBlocks(s, q + 3)

INDEX_HTML == <<"i", "n", "d", "e", "x", ".", "h", "t", "m", "l">>
STYLE_CSS == <<"s", "t", "y", "l", "e", ".", "c", "s", "s">>
SCRIPT_JS == <<"s", "c", "r", "i", "p", "t", ".", "j", "s">>

\* A variant that accepts any match at all, padding the missing files with ''
\* (the conditional expressions of the assignments would then do something).
Method2_any_match(s) ==
    LET matches == FindAllBlocks(s, 1)
    IN  IF Len(matches) >= 1
        THEN DictPut(DictPut(DictPut(EmptyDict, INDEX_HTML, Strip(matches[1])),
                             STYLE_CSS, IF Len(matches) > 1 THEN Strip(matches[2]) ELSE <<>>),
                     SCRIPT_JS, IF Len(matches) > 2 THEN Strip(matches[3]) ELSE <<>>)
        ELSE EmptyDict

\* A variant that stores the groups as matched, without .strip().
Method2_untrimmed(s) ==
    LET matches == FindAllBlocks(s, 1)
    IN  IF Len(matches) >= 3
        THEN DictPut(DictPut(DictPut(EmptyDict, INDEX_HTML, matches[1]),
                             STYLE_CSS, matches[2]),
                     SCRIPT_JS, matches[3])
        ELSE EmptyDict

\* if len(matches) >= 3: the first three groups, trimmed, under the fixed names.
Method2(s) ==
    LET matches == FindAllBlocks(s, 1)
    IN  IF Len(matches) >= 3
        THEN DictPut(DictPut(DictPut(EmptyDict, INDEX_HTML, Strip(matches[1])),
                             STYLE_CSS, Strip(matches[2])),
                     SCRIPT_JS, Strip(matches[3]))
        ELSE EmptyDict

\* A variant that runs Method 2 first and keeps its result when three blocks are found.
FinishParse_fallback_first(st, s) ==
    LET blocks == Method2(s)
    IN  IF DOMAIN blocks # {} THEN blocks ELSE Flush(st)

\* The statements after the loop: save the last file, then Method 2 "if not files".
FinishParse(st, s) ==
    LET saved == Flush(st)
    IN  IF DOMAIN saved = {} THEN Method2(s) ELSE saved

\* The loop run over the lines a..b, entered with the variables st: the first
\* half of the lines, then the second half, so that the recursion stays shallow on
\* long texts (the test of half makes it be computed before the second half is
\* entered; in_code_block is always a boolean).
RECURSIVE ScanFrom(_, _, _, _)
ScanFrom(st, ls, a, b) ==
    IF a > b THEN st
    ELSE IF a = b THEN ParseLine(st, ls[a])
    ELSE LET mid == (a + b) \div 2
             half == ScanFrom(st, ls, a, mid)
         IN  IF half.in_code_block \in BOOLEAN THEN ScanFrom(half, ls, mid + 1, b) ELSE half

\* The loop run over the first n lines.
ScanLines(ls, n) == ScanFrom(ParserStart, ls, 1, n)

\* The whole function, text in, dict out.
parse_files_from_response(s) ==
    LET ls == Split(s, NL)
    IN  FinishParse(ScanLines(ls, Len(ls)), s)

(***************************************************************************)
(* The parser run line by line.                                            *)
(***************************************************************************)
ParserState == [current_file |-> current_file, in_code_block |-> in_code_block,
                code_content |-> code_content, files |-> files]

\* for line in lines: one iteration.
ParseStep ==
    /\ pc = "scan"
    /\ idx < Len(lines)
    /\ LET nxt == ParseLine(ParserState, lines[idx + 1])
       IN  /\ current_file' = nxt.current_file
           /\ in_code_block' = nxt.in_code_block
           /\ code_content' = nxt.code_content
           /\ files' = nxt.files
    /\ idx' = idx + 1
    /\ UNCHANGED <<text, origin, lines, pc, classifierVars, imageVars, requestVars>>
    /\ UNCHANGED <<concurrentVars, composerVars>>

\* After the loop: save the last file, fall back to Method 2, return files.
ParseReturn ==
    /\ pc = "scan"
    /\ idx = Len(lines)
    /\ files' = FinishParse(ParserState, text)
    /\ pc' = "returned"
    /\ UNCHANGED <<text, origin, lines, idx, current_file, in_code_block, code_content>>
    /\ UNCHANGED <<classifierVars, imageVars, requestVars>>
    /\ UNCHANGED <<concurrentVars, composerVars>>

NextParse == ParseStep \/ ParseReturn

ParserUnused ==
    /\ text = <<>>
    /\ origin = <<>>
    /\ lines = <<>>
    /\ idx = 0
    /\ current_file = NoFile
    /\ in_code_block = FALSE
    /\ code_content = <<>>
    /\ files = EmptyDict

(***************************************************************************)
(* app.py: the POST handlers generate_website and                          *)
(* generate_and_push_to_github.                                            *)
(***************************************************************************)
GENERATE_WEBSITE == "/generate-website"
PUSH_TO_GITHUB == "/generate-and-push-to-github"

VANILLA == <<"v", "a", "n", "i", "l", "l", "a">>
REACT == <<"r", "e", "a", "c", "t">>

\* A JSON value that is no string (null, a number): it has no strip() and no lower().
NotAString == <<"<not a string>">>
IsString(v) == v # NotAString

\* dict.get(key, default)
Get(d, key, default) == IF key \in DOMAIN d THEN d[key] ELSE default

\* if not data: an empty body is false.
NoData(data) == DOMAIN data = {}

\* return jsonify({'success': False, 'error': ...}), status
Failure(status, error) ==
    [status |-> status, success |-> FALSE, error |-> error, project_type |-> <<>>]

\* return jsonify({'success': True, 'project_type': project_type, ...})
Success(type) ==
    [status |-> 200, success |-> TRUE, error |-> "", project_type |-> type]

\* except Exception as e: return jsonify({'success': False, 'error': str(e)}), 500
Raised(error) == Failure(500, error)

NoResponse == [status |-> 0, success |-> FALSE, error |-> "", project_type |-> <<>>]

\* The lines both handlers start with: the body, the description and the type.
\*   user_description = data.get('description', '').strip()
\*   project_type = data.get('type', 'vanilla').lower()
Validated(data) ==
    LET d == Get(data, "description", <<>>)
        t == Get(data, "type", VANILLA)
    IN  IF NoData(data)
        THEN [user_description |-> <<>>, project_type |-> <<>>,
              response |-> Failure(400, "No data provided")]
        ELSE IF ~IsString(d)
        THEN [user_description |-> <<>>, project_type |-> <<>>,
              response |-> Raised("AttributeError: strip")]
        ELSE IF ~IsString(t)
        THEN [user_description |-> Strip(d), project_type |-> <<>>,
              response |-> Raised("AttributeError: lower")]
        ELSE IF Strip(d) = <<>>
        THEN [user_description |-> Strip(d), project_type |-> Lower(t),
              response |-> Failure(400, "Description is required")]
        ELSE [user_description |-> Strip(d), project_type |-> Lower(t),
              response |-> NoResponse]

\* A handler in which every type is let through.
TypeAllowed_any(t) == TRUE

\* if project_type not in ['vanilla', 'react']
TypeAllowed(t) == t \in {VANILLA, REACT}

\* A handler that goes on with whatever the parser returned.
ParseFailed_unchecked(fs) == FALSE

\* A handler that wants a file for every marker line of the generated text.
ParseFailed_file_per_marker(fs) ==
    Cardinality(DOMAIN fs) < Cardinality({i \in DOMAIN Split(text, NL) :
                                            Contains(Split(text, NL)[i], FILE_MARKER)})

\* if not files
ParseFailed(fs) == DOMAIN fs = {}

\* A handler that does not look at the result of the push.
PushFailed_ignored(result) == FALSE

\* if not github_result['success']
PushFailed(result) == ~result.success

\* The keys of the dicts the push handler builds, and the keys
\* get_react_prompt_enhanced reads from them, in reading order.
SOCIAL_MEDIA_KEYS == {"instagram", "twitter", "linkedin", "facebook", "email", "phone"}
CONTACT_KEYS == {"address", "city", "state"}
SOCIAL_MEDIA_READS == <<"instagram", "twitter", "facebook", "linkedin", "youtube">>
CONTACT_READS == <<"email", "phone", "address">>

NoKeyError == ""

\* d[key] raises KeyError(key) when the key is missing: the first read that raises.
FirstKeyError(reads, d) ==
    LET missing == {i \in DOMAIN reads : reads[i] \notin DOMAIN d}
    IN  IF missing = {} THEN NoKeyError ELSE reads[Min(missing)]

\* generate_website up to the type check.
ValidateGenerate ==
    /\ pc = "validate"
    /\ request.endpoint = GENERATE_WEBSITE
    /\ LET v == Validated(request.data)
       IN  /\ description' = v.user_description
           /\ project_type' = v.project_type
           /\ IF v.response # NoResponse
              THEN response' = v.response /\ pc' = "responded"
              ELSE IF ~TypeAllowed(v.project_type)
              THEN /\ response' = Failure(400, "Type must be either vanilla or react")
                   /\ pc' = "responded"
              ELSE response' = response /\ pc' = "prompt"
    /\ UNCHANGED <<request, social_media, contact, gemini, github, n_generate, n_push>>
    /\ UNCHANGED <<parserVars, structure_info, imageVars>>
    /\ UNCHANGED <<concurrentVars, composerVars>>

\* generate_and_push_to_github up to the contact dict.
ValidatePush ==
    /\ pc = "validate"
    /\ request.endpoint = PUSH_TO_GITHUB
    /\ LET v == Validated(request.data)
       IN  /\ description' = v.user_description
           /\ project_type' = v.project_type
           /\ IF v.response # NoResponse
              THEN /\ response' = v.response
                   /\ pc' = "responded"
                   /\ UNCHANGED <<social_media, contact>>
              ELSE /\ social_media' = [k \in SOCIAL_MEDIA_KEYS |-> Get(request.data, k, <<>>)]
                   /\ contact' = [k \in CONTACT_KEYS |-> Get(request.data, k, <<>>)]
                   /\ response' = response
                   /\ pc' = "prompt"
    /\ UNCHANGED <<request, gemini, github, n_generate, n_push>>
    /\ UNCHANGED <<parserVars, structure_info, imageVars>>
    /\ UNCHANGED <<concurrentVars, composerVars>>

\* generate_website: get_vanilla_prompt / get_react_prompt, which start with
\* keywords = extract_keywords_from_description(description) and
\* images = get_pexels_images(keywords, per_keyword=2).
PromptGenerate ==
    /\ pc = "prompt"
    /\ request.endpoint = GENERATE_WEBSITE
    /\ keywords' = extract_keywords_from_description(description)
    /\ ret' = "generate"
    /\ pc' = "pexels_enter"
    /\ UNCHANGED <<pexels_api_key, kpos, image_urls, http_log, replies>>
    /\ UNCHANGED <<parserVars, classifierVars, requestVars>>
    /\ UNCHANGED <<concurrentVars, composerVars>>

\* generate_and_push_to_github: the structure, then get_react_prompt_enhanced
\* (which fetches images first) for type react, get_structured_prompt (which
\* fetches none) for any other type.
PromptPush ==
    /\ pc = "prompt"
    /\ request.endpoint = PUSH_TO_GITHUB
    /\ structure_info' = determine_website_structure(description)
    /\ IF project_type = REACT
       THEN /\ keywords' = extract_keywords_from_description(description)
            /\ ret' = "react_prompt"
            /\ pc' = "pexels_enter"
       ELSE /\ UNCHANGED <<keywords, ret>>
            /\ pc' = "generate"
    /\ UNCHANGED <<pexels_api_key, kpos, image_urls, http_log, replies>>
    /\ UNCHANGED <<parserVars, description, requestVars>>
    /\ UNCHANGED <<concurrentVars, composerVars>>

\* get_react_prompt_enhanced after the images: the reads of social_media[...] and
\* contact[...]; a KeyError leaves the handler through except Exception.
ReactPrompt ==
    /\ pc = "react_prompt"
    /\ LET e1 == FirstKeyError(SOCIAL_MEDIA_READS, social_media)
           e2 == FirstKeyError(CONTACT_READS, contact)
           e == IF e1 # NoKeyError THEN e1 ELSE e2
       IN  IF e # NoKeyError
           THEN response' = Raised(e) /\ pc' = "responded"
           ELSE response' = response /\ pc' = "generate"
    /\ UNCHANGED <<request, project_type, social_media, contact, gemini, github,
                   n_generate, n_push>>
    /\ UNCHANGED <<parserVars, classifierVars, imageVars>>
    /\ UNCHANGED <<concurrentVars, composerVars>>

\* response = model.generate_content(prompt); generated_text = response.text
Generate ==
    /\ pc = "generate"
    /\ n_generate' = n_generate + 1
    /\ IF gemini.kind = "text"
       THEN text' = gemini.text /\ response' = response /\ pc' = "parse"
       ELSE text' = text /\ response' = Raised(gemini.kind) /\ pc' = "responded"
    /\ UNCHANGED <<request, project_type, social_media, contact, gemini, github, n_push>>
    /\ UNCHANGED <<origin, lines, idx, current_file, in_code_block, code_content, files>>
    /\ UNCHANGED <<classifierVars, imageVars>>
    /\ UNCHANGED <<concurrentVars, composerVars>>

\* files = parse_files_from_response(generated_text); if not files: 500;
\* generate_website then returns the files, the push handler goes on.
ParseFiles ==
    /\ pc = "parse"
    /\ files' = parse_files_from_response(text)
    /\ IF ParseFailed(files')
       THEN /\ response' = Failure(500, "Failed to parse files from AI response")
            /\ pc' = "responded"
       ELSE IF request.endpoint = GENERATE_WEBSITE
       THEN response' = Success(project_type) /\ pc' = "responded"
       ELSE response' = response /\ pc' = "push"
    /\ UNCHANGED <<request, project_type, social_media, contact, gemini, github,
                   n_generate, n_push>>
    /\ UNCHANGED <<text, origin, lines, idx, current_file, in_code_block, code_content>>
    /\ UNCHANGED <<classifierVars, imageVars>>
    /\ UNCHANGED <<concurrentVars, composerVars>>

\* github_result = github_mgr.create_and_push(user_description, files)
Push ==
    /\ pc = "push"
    /\ n_push' = n_push + 1
    /\ response' = IF github.kind = "raises" THEN Raised("push raised")
                   ELSE IF PushFailed(github.result)
                   THEN Failure(500, "GitHub error: " \o github.result.error)
                   ELSE Success(project_type)
    /\ pc' = "responded"
    /\ UNCHANGED <<request, project_type, social_media, contact, gemini, github, n_generate>>
    /\ UNCHANGED <<parserVars, classifierVars, imageVars>>
    /\ UNCHANGED <<concurrentVars, composerVars>>

NextRequest ==
    \/ ValidateGenerate \/ ValidatePush \/ PromptGenerate \/ PromptPush
    \/ PexelsEnter \/ PexelsFetch \/ PexelsReturn
    \/ ReactPrompt \/ Generate \/ ParseFiles \/ Push

RequestUnused ==
    /\ request = [endpoint |-> "none", data |-> EmptyDict]
    /\ project_type = <<>>
    /\ social_media = EmptyDict
    /\ contact = EmptyDict
    /\ gemini = [kind |-> "none"]
    /\ github = [kind |-> "none"]
    /\ n_generate = 0
    /\ n_push = 0
    /\ response = NoResponse

(***************************************************************************)
(* Requests handled concurrently (a threaded server): each request runs    *)
(* extract_keywords_from_description and parse_files_from_response, one    *)
(* statement at a time, interleaved with the other request.                *)
(***************************************************************************)
Requests == {1, 2}

\* Process-wide state instead of locals: every call works in the same frame.
FrameOf_shared(r) == 1

\* A call's variables (matched_keywords; lines, current_file, in_code_block,
\* code_content, files) are locals of the function: each call has its own frame.
FrameOf(r) == r

NoFrame == [matched_keywords |-> <<>>, lines |-> <<>>, idx |-> 0,
            current_file |-> NoFile, in_code_block |-> FALSE,
            code_content |-> <<>>, files |-> EmptyDict]

ParserPart(fr) == [current_file |-> fr.current_file, in_code_block |-> fr.in_code_block,
                   code_content |-> fr.code_content, files |-> fr.files]

\* The frame with the parser's four variables replaced.
WithParser(fr, st) == [fr EXCEPT !.current_file = st.current_file,
                                 !.in_code_block = st.in_code_block,
                                 !.code_content = st.code_content,
                                 !.files = st.files]

\* One statement of thread r: its frame becomes fr, its position p.
ThreadMoves(r, fr, p) ==
    /\ frames' = [frames EXCEPT ![FrameOf(r)] = fr]
    /\ threads' = [threads EXCEPT ![r].pc = p]

\* extract_keywords_from_description: matched_keywords is filled.
ThreadExtract(r) ==
    /\ pc = "threads"
    /\ threads[r].pc = "extract"
    /\ ThreadMoves(r, [frames[FrameOf(r)] EXCEPT !.matched_keywords =
                          extract_keywords_from_description(threads[r].description)],
                   "extract_return")
    /\ UNCHANGED <<parserVars, classifierVars, imageVars, requestVars, composerVars, pc>>

\* return matched_keywords
ThreadExtractReturn(r) ==
    /\ pc = "threads"
    /\ threads[r].pc = "extract_return"
    /\ threads' = [threads EXCEPT ![r].keywords = frames[FrameOf(r)].matched_keywords,
                                  ![r].pc = "parse"]
    /\ UNCHANGED <<frames, parserVars, classifierVars, imageVars, requestVars, composerVars, pc>>

\* parse_files_from_response entered: files = {}, lines = text.split('\n'), ...
ThreadParseEnter(r) ==
    /\ pc = "threads"
    /\ threads[r].pc = "parse"
    /\ ThreadMoves(r, [WithParser(frames[FrameOf(r)], ParserStart)
                          EXCEPT !.lines = Split(threads[r].text, NL), !.idx = 0],
                   "scan")
    /\ UNCHANGED <<parserVars, classifierVars, imageVars, requestVars, composerVars, pc>>

\* for line in lines: one iteration.
ThreadParseStep(r) ==
    /\ pc = "threads"
    /\ threads[r].pc = "scan"
    /\ LET fr == frames[FrameOf(r)]
       IN  /\ fr.idx < Len(fr.lines)
           /\ ThreadMoves(r, [WithParser(fr, ParseLine(ParserPart(fr), fr.lines[fr.idx + 1]))
                                 EXCEPT !.idx = fr.idx + 1],
                          "scan")
    /\ UNCHANGED <<parserVars, classifierVars, imageVars, requestVars, composerVars, pc>>

\* After the loop: save the last file, Method 2 if nothing was found, return files.
ThreadParseReturn(r) ==
    /\ pc = "threads"
    /\ threads[r].pc = "scan"
    /\ LET fr == frames[FrameOf(r)]
       IN  /\ fr.idx >= Len(fr.lines)
           /\ threads' = [threads EXCEPT
                             ![r].files = FinishParse(ParserPart(fr), threads[r].text),
                             ![r].pc = "returned"]
    /\ UNCHANGED <<frames, parserVars, classifierVars, imageVars, requestVars, composerVars, pc>>

NextConcurrent ==
    \E r \in Requests :
        \/ ThreadExtract(r) \/ ThreadExtractReturn(r)
        \/ ThreadParseEnter(r) \/ ThreadParseStep(r) \/ ThreadParseReturn(r)

ThreadsUnused ==
    /\ threads = <<>>
    /\ frames = <<>>

(***************************************************************************)
(* prompt_builder.py: build_file_instructions.                             *)
(***************************************************************************)
\* The texts build_file_instructions returns, one field per return statement.
INSTRUCTION_TEXTS == [
  \* lines 11-22
  auth_page |-> Text(<<
    <<>>,
    <<"T", "h", "i", "s", " ", "i", "s", " ", "a", "n", " ", "a", "u", "t", "h", "e", "n", "t", "i", "c", "a", "t", "i", "o", "n", " ", "p", "a", "g", "e", ".", " ", "I", "n", "c", "l", "u", "d", "e", ":">>,
    <<"-", " ", "C", "l", "e", "a", "n", ",", " ", "m", "o", "d", "e", "r", "n", " ", "f", "o", "r", "m", " ", "d", "e", "s", "i", "g", "n">>,
    <<"-", " ", "E", "m", "a", "i", "l", " ", "a", "n", "d", " ", "p", "a", "s", "s", "w", "o", "r", "d", " ", "i", "n", "p", "u", "t", "s">>,
    <<"-", " ", "\"", "R", "e", "m", "e", "m", "b", "e", "r", " ", "m", "e", "\"", " ", "c", "h", "e", "c", "k", "b", "o", "x", " ", "(", "f", "o", "r", " ", "l", "o", "g", "i", "n", ")">>,
    <<"-", " ", "\"", "F", "o", "r", "g", "o", "t", " ", "p", "a", "s", "s", "w", "o", "r", "d", "?", "\"", " ", "l", "i", "n", "k", " ", "(", "f", "o", "r", " ", "l", "o", "g", "i", "n", ")">>,
    <<"-", " ", "T", "e", "r", "m", "s", " ", "a", "c", "c", "e", "p", "t", "a", "n", "c", "e", " ", "c", "h", "e", "c", "k", "b", "o", "x", " ", "(", "f", "o", "r", " ", "s", "i", "g", "n", "u", "p", ")">>,
    <<"-", " ", "C", "l", "i", "e", "n", "t", "-", "s", "i", "d", "e", " ", "v", "a", "l", "i", "d", "a", "t", "i", "o", "n">>,
    <<"-", " ", "E", "r", "r", "o", "r", " ", "m", "e", "s", "s", "a", "g", "e", " ", "d", "i", "s", "p", "l", "a", "y", " ", "a", "r", "e", "a">>,
    <<"-", " ", "L", "o", "a", "d", "i", "n", "g", " ", "s", "t", "a", "t", "e", " ", "h", "a", "n", "d", "l", "i", "n", "g">>,
    <<"-", " ", "R", "e", "d", "i", "r", "e", "c", "t", " ", "l", "o", "g", "i", "c", " ", "a", "f", "t", "e", "r", " ", "s", "u", "c", "c", "e", "s", "s", "f", "u", "l", " ", "a", "u", "t", "h">>,
    <<>> >>),
  \* lines 24-33
  dashboard_page |-> Text(<<
    <<>>,
    <<"T", "h", "i", "s", " ", "i", "s", " ", "a", " ", "p", "r", "o", "t", "e", "c", "t", "e", "d", " ", "d", "a", "s", "h", "b", "o", "a", "r", "d", " ", "p", "a", "g", "e", ".", " ", "I", "n", "c", "l", "u", "d", "e", ":">>,
    <<"-", " ", "U", "s", "e", "r", " ", "g", "r", "e", "e", "t", "i", "n", "g", " ", "w", "i", "t", "h", " ", "n", "a", "m", "e">>,
    <<"-", " ", "N", "a", "v", "i", "g", "a", "t", "i", "o", "n", " ", "s", "i", "d", "e", "b", "a", "r", "/", "m", "e", "n", "u">>,
    <<"-", " ", "M", "a", "i", "n", " ", "c", "o", "n", "t", "e", "n", "t", " ", "a", "r", "e", "a", " ", "w", "i", "t", "h", " ", "c", "a", "r", "d", "s", "/", "s", "t", "a", "t", "s">>,
    <<"-", " ", "Q", "u", "i", "c", "k", " ", "a", "c", "t", "i", "o", "n", "s", " ", "s", "e", "c", "t", "i", "o", "n">>,
    <<"-", " ", "L", "o", "g", "o", "u", "t", " ", "b", "u", "t", "t", "o", "n">>,
    <<"-", " ", "P", "r", "o", "f", "i", "l", "e", " ", "l", "i", "n", "k">>,
    <<"-", " ", "R", "e", "s", "p", "o", "n", "s", "i", "v", "e", " ", "l", "a", "y", "o", "u", "t">>,
    <<>> >>),
  \* lines 35-43
  profile_page |-> Text(<<
    <<>>,
    <<"T", "h", "i", "s", " ", "i", "s", " ", "a", " ", "u", "s", "e", "r", " ", "p", "r", "o", "f", "i", "l", "e", "/", "s", "e", "t", "t", "i", "n", "g", "s", " ", "p", "a", "g", "e", ".", " ", "I", "n", "c", "l", "u", "d", "e", ":">>,
    <<"-", " ", "F", "o", "r", "m", " ", "t", "o", " ", "e", "d", "i", "t", " ", "u", "s", "e", "r", " ", "i", "n", "f", "o", "r", "m", "a", "t", "i", "o", "n">>,
    <<"-", " ", "P", "a", "s", "s", "w", "o", "r", "d", " ", "c", "h", "a", "n", "g", "e", " ", "s", "e", "c", "t", "i", "o", "n">>,
    <<"-", " ", "P", "r", "o", "f", "i", "l", "e", " ", "p", "i", "c", "t", "u", "r", "e", " ", "u", "p", "l", "o", "a", "d", " ", "(", "p", "l", "a", "c", "e", "h", "o", "l", "d", "e", "r", ")">>,
    <<"-", " ", "S", "a", "v", "e", "/", "C", "a", "n", "c", "e", "l", " ", "b", "u", "t", "t", "o", "n", "s">>,
    <<"-", " ", "S", "u", "c", "c", "e", "s", "s", "/", "e", "r", "r", "o", "r", " ", "m", "e", "s", "s", "a", "g", "e", "s">>,
    <<"-", " ", "V", "a", "l", "i", "d", "a", "t", "i", "o", "n", " ", "f", "e", "e", "d", "b", "a", "c", "k">>,
    <<>> >>),
  \* lines 45-52
  homepage |-> Text(<<
    <<>>,
    <<"T", "h", "i", "s", " ", "i", "s", " ", "t", "h", "e", " ", "h", "o", "m", "e", "p", "a", "g", "e", ".", " ", "I", "n", "c", "l", "u", "d", "e", ":">>,
    <<"-", " ", "H", "e", "r", "o", " ", "s", "e", "c", "t", "i", "o", "n", " ", "w", "i", "t", "h", " ", "c", "o", "m", "p", "e", "l", "l", "i", "n", "g", " ", "h", "e", "a", "d", "l", "i", "n", "e">>,
    <<"-", " ", "C", "a", "l", "l", "-", "t", "o", "-", "a", "c", "t", "i", "o", "n", " ", "b", "u", "t", "t", "o", "n", "s">>,
    <<"-", " ", "F", "e", "a", "t", "u", "r", "e", "s", "/", "b", "e", "n", "e", "f", "i", "t", "s", " ", "s", "e", "c", "t", "i", "o", "n">>,
    <<"-", " ", "T", "e", "s", "t", "i", "m", "o", "n", "i", "a", "l", "s", " ", "(", "i", "f", " ", "a", "p", "p", "l", "i", "c", "a", "b", "l", "e", ")">>,
    <<"-", " ", "F", "o", "o", "t", "e", "r", " ", "w", "i", "t", "h", " ", "l", "i", "n", "k", "s", " ", "a", "n", "d", " ", "i", "n", "f", "o">>,
    <<>> >>),
  \* lines 54-60
  html |-> Text(<<
    <<>>,
    <<"C", "r", "e", "a", "t", "e", " ", "a", " ", "w", "e", "l", "l", "-", "s", "t", "r", "u", "c", "t", "u", "r", "e", "d", " ", "H", "T", "M", "L", " ", "p", "a", "g", "e", " ", "w", "i", "t", "h", ":">>,
    <<"-", " ", "P", "r", "o", "p", "e", "r", " ", "s", "e", "m", "a", "n", "t", "i", "c", " ", "H", "T", "M", "L", "5">>,
    <<"-", " ", "C", "o", "n", "s", "i", "s", "t", "e", "n", "t", " ", "n", "a", "v", "i", "g", "a", "t", "i", "o", "n">>,
    <<"-", " ", "R", "e", "s", "p", "o", "n", "s", "i", "v", "e", " ", "d", "e", "s", "i", "g", "n">>,
    <<"-", " ", "A", "c", "c", "e", "s", "s", "i", "b", "i", "l", "i", "t", "y", " ", "f", "e", "a", "t", "u", "r", "e", "s">>,
    <<>> >>),
  \* lines 63-71
  css |-> Text(<<
    <<>>,
    <<"C", "r", "e", "a", "t", "e", " ", "c", "o", "m", "p", "r", "e", "h", "e", "n", "s", "i", "v", "e", " ", "C", "S", "S", " ", "w", "i", "t", "h", ":">>,
    <<"-", " ", "C", "S", "S", " ", "v", "a", "r", "i", "a", "b", "l", "e", "s", " ", "f", "o", "r", " ", "c", "o", "l", "o", "r", "s", "/", "f", "o", "n", "t", "s">>,
    <<"-", " ", "R", "e", "s", "p", "o", "n", "s", "i", "v", "e", " ", "b", "r", "e", "a", "k", "p", "o", "i", "n", "t", "s">>,
    <<"-", " ", "M", "o", "d", "e", "r", "n", " ", "l", "a", "y", "o", "u", "t", " ", "(", "F", "l", "e", "x", "b", "o", "x", "/", "G", "r", "i", "d", ")">>,
    <<"-", " ", "H", "o", "v", "e", "r", " ", "e", "f", "f", "e", "c", "t", "s", " ", "a", "n", "d", " ", "t", "r", "a", "n", "s", "i", "t", "i", "o", "n", "s">>,
    <<"-", " ", "C", "o", "n", "s", "i", "s", "t", "e", "n", "t", " ", "s", "p", "a", "c", "i", "n", "g">>,
    <<"-", " ", "M", "o", "b", "i", "l", "e", "-", "f", "i", "r", "s", "t", " ", "a", "p", "p", "r", "o", "a", "c", "h">>,
    <<>> >>),
  \* lines 75-87
  auth_js |-> Text(<<
    <<>>,
    <<"C", "r", "e", "a", "t", "e", " ", "a", "u", "t", "h", "e", "n", "t", "i", "c", "a", "t", "i", "o", "n", " ", "J", "a", "v", "a", "S", "c", "r", "i", "p", "t", " ", "w", "i", "t", "h", ":">>,
    <<"-", " ", "A", " ", "s", "i", "n", "g", "l", "e", " ", "b", "a", "s", "e", " ", "U", "R", "L", " ", "c", "o", "n", "s", "t", "a", "n", "t", " ", "a", "t", " ", "t", "h", "e", " ", "v", "e", "r", "y", " ", "t", "o", "p", ":">>,
    <<" ", " ", " ", " ", "c", "o", "n", "s", "t", " ", "A", "P", "I", "_", "B", "A", "S", "E", " ", "=", " ", "w", "i", "n", "d", "o", "w", ".", "l", "o", "c", "a", "t", "i", "o", "n", ".", "o", "r", "i", "g", "i", "n", " ", "+", " ", "'", "/", "a", "p", "i", "'", ";">>,
    <<" ", " ", "U", "s", "e", " ", "t", "h", "i", "s", " ", "f", "o", "r", " ", "A", "L", "L", " ", "f", "e", "t", "c", "h", " ", "c", "a", "l", "l", "s", " ", "s", "o", " ", "t", "h", "e", " ", "a", "p", "p", " ", "w", "o", "r", "k", "s", " ", "b", "o", "t", "h", " ", "l", "o", "c", "a", "l", "l", "y", " ", "a", "n", "d", " ", "o", "n", " ", "R", "e", "n", "d", "e", "r", " ", "w", "i", "t", "h", "o", "u", "t", " ", "c", "h", "a", "n", "g", "e", "s", ".">>,
    <<"-", " ", "F", "o", "r", "m", " ", "v", "a", "l", "i", "d", "a", "t", "i", "o", "n", " ", "b", "e", "f", "o", "r", "e", " ", "s", "u", "b", "m", "i", "t", "t", "i", "n", "g">>,
    <<"-", " ", "f", "e", "t", "c", "h", "(", ")", " ", "c", "a", "l", "l", "s", " ", "t", "o", " ", "$", "{", "A", "P", "I", "_", "B", "A", "S", "E", "}", "/", "a", "u", "t", "h", "/", "l", "o", "g", "i", "n", " ", "a", "n", "d", " ", "$", "{", "A", "P", "I", "_", "B", "A", "S", "E", "}", "/", "a", "u", "t", "h", "/", "s", "i", "g", "n", "u", "p">>,
    <<"-", " ", "J", "W", "T", " ", "t", "o", "k", "e", "n", " ", "s", "t", "o", "r", "e", "d", " ", "i", "n", " ", "l", "o", "c", "a", "l", "S", "t", "o", "r", "a", "g", "e", " ", "a", "f", "t", "e", "r", " ", "s", "u", "c", "c", "e", "s", "s", "f", "u", "l", " ", "a", "u", "t", "h">>,
    <<"-", " ", "R", "e", "d", "i", "r", "e", "c", "t", " ", "t", "o", " ", "d", "a", "s", "h", "b", "o", "a", "r", "d", " ", "a", "f", "t", "e", "r", " ", "l", "o", "g", "i", "n", "/", "s", "i", "g", "n", "u", "p">>,
    <<"-", " ", "R", "e", "d", "i", "r", "e", "c", "t", " ", "t", "o", " ", "l", "o", "g", "i", "n", " ", "i", "f", " ", "t", "o", "k", "e", "n", " ", "m", "i", "s", "s", "i", "n", "g", " ", "o", "n", " ", "p", "r", "o", "t", "e", "c", "t", "e", "d", " ", "p", "a", "g", "e", "s">>,
    <<"-", " ", "U", "s", "e", "r", "-", "f", "r", "i", "e", "n", "d", "l", "y", " ", "e", "r", "r", "o", "r", " ", "m", "e", "s", "s", "a", "g", "e", "s", " ", "s", "h", "o", "w", "n", " ", "i", "n", " ", "t", "h", "e", " ", "D", "O", "M">>,
    <<"-", " ", "L", "o", "a", "d", "i", "n", "g", " ", "/", " ", "d", "i", "s", "a", "b", "l", "e", "d", " ", "b", "u", "t", "t", "o", "n", " ", "s", "t", "a", "t", "e", " ", "w", "h", "i", "l", "e", " ", "r", "e", "q", "u", "e", "s", "t", " ", "i", "s", " ", "i", "n", " ", "f", "l", "i", "g", "h", "t">>,
    <<>> >>),
  \* lines 89-96
  dashboard_js |-> Text(<<
    <<>>,
    <<"C", "r", "e", "a", "t", "e", " ", "d", "a", "s", "h", "b", "o", "a", "r", "d", " ", "J", "a", "v", "a", "S", "c", "r", "i", "p", "t", " ", "w", "i", "t", "h", ":">>,
    <<"-", " ", "C", "h", "e", "c", "k", " ", "i", "f", " ", "u", "s", "e", "r", " ", "i", "s", " ", "a", "u", "t", "h", "e", "n", "t", "i", "c", "a", "t", "e", "d">>,
    <<"-", " ", "F", "e", "t", "c", "h", " ", "u", "s", "e", "r", " ", "d", "a", "t", "a", " ", "f", "r", "o", "m", " ", "A", "P", "I">>,
    <<"-", " ", "H", "a", "n", "d", "l", "e", " ", "l", "o", "g", "o", "u", "t">>,
    <<"-", " ", "U", "p", "d", "a", "t", "e", " ", "U", "I", " ", "w", "i", "t", "h", " ", "u", "s", "e", "r", " ", "i", "n", "f", "o">>,
    <<"-", " ", "R", "e", "d", "i", "r", "e", "c", "t", " ", "t", "o", " ", "l", "o", "g", "i", "n", " ", "i", "f", " ", "n", "o", "t", " ", "a", "u", "t", "h", "e", "n", "t", "i", "c", "a", "t", "e", "d">>,
    <<>> >>),
  \* lines 98-105
  js |-> Text(<<
    <<>>,
    <<"C", "r", "e", "a", "t", "e", " ", "J", "a", "v", "a", "S", "c", "r", "i", "p", "t", " ", "w", "i", "t", "h", ":">>,
    <<"-", " ", "E", "v", "e", "n", "t", " ", "l", "i", "s", "t", "e", "n", "e", "r", "s">>,
    <<"-", " ", "F", "o", "r", "m", " ", "h", "a", "n", "d", "l", "i", "n", "g">>,
    <<"-", " ", "S", "m", "o", "o", "t", "h", " ", "s", "c", "r", "o", "l", "l", "i", "n", "g", "/", "a", "n", "i", "m", "a", "t", "i", "o", "n", "s">>,
    <<"-", " ", "M", "o", "b", "i", "l", "e", " ", "m", "e", "n", "u", " ", "t", "o", "g", "g", "l", "e">>,
    <<"-", " ", "A", "n", "y", " ", "i", "n", "t", "e", "r", "a", "c", "t", "i", "v", "e", " ", "f", "e", "a", "t", "u", "r", "e", "s">>,
    <<>> >>),
  \* lines 108-124
  server |-> Text(<<
    <<>>,
    <<"C", "r", "e", "a", "t", "e", " ", "a", " ", "p", "r", "o", "d", "u", "c", "t", "i", "o", "n", "-", "r", "e", "a", "d", "y", " ", "E", "x", "p", "r", "e", "s", "s", ".", "j", "s", " ", "s", "e", "r", "v", "e", "r", ".", " ", "S", "T", "R", "I", "C", "T", " ", "R", "U", "L", "E", "S", ":">>,
    <<>>,
    <<"1", ".", " ", "F", "I", "R", "S", "T", " ", "l", "i", "n", "e", ":", " ", "r", "e", "q", "u", "i", "r", "e", "(", "'", "d", "o", "t", "e", "n", "v", "'", ")", ".", "c", "o", "n", "f", "i", "g", "(", ")", ";">>,
    <<"2", ".", " ", "U", "s", "e", ":", " ", "c", "o", "n", "s", "t", " ", "P", "O", "R", "T", " ", "=", " ", "p", "r", "o", "c", "e", "s", "s", ".", "e", "n", "v", ".", "P", "O", "R", "T", " ", "|", "|", " ", "5", "0", "0", "0", ";">>,
    <<"3", ".", " ", "M", "o", "n", "g", "o", "D", "B", ":", " ", "m", "o", "n", "g", "o", "o", "s", "e", ".", "c", "o", "n", "n", "e", "c", "t", "(", "p", "r", "o", "c", "e", "s", "s", ".", "e", "n", "v", ".", "M", "O", "N", "G", "O", "_", "U", "R", "I", ")", " ", EM_DASH, " ", "N", "E", "V", "E", "R", " ", "u", "s", "e", " ", "h", "a", "r", "d", "c", "o", "d", "e", "d", " ", "U", "R", "I", "s", ".">>,
    <<"4", ".", " ", "C", "O", "R", "S", " ", EM_DASH, " ", "a", "l", "l", "o", "w", " ", "a", "l", "l", " ", "o", "r", "i", "g", "i", "n", "s", ":">>,
    <<" ", " ", " ", "a", "p", "p", ".", "u", "s", "e", "(", "c", "o", "r", "s", "(", "{", " ", "o", "r", "i", "g", "i", "n", ":", " ", "'", "*", "'", ",", " ", "m", "e", "t", "h", "o", "d", "s", ":", " ", "[", "'", "G", "E", "T", "'", ",", "'", "P", "O", "S", "T", "'", ",", "'", "P", "U", "T", "'", ",", "'", "D", "E", "L", "E", "T", "E", "'", ",", "'", "O", "P", "T", "I", "O", "N", "S", "'", "]", ",", " ", "a", "l", "l", "o", "w", "e", "d", "H", "e", "a", "d", "e", "r", "s", ":", " ", "[", "'", "C", "o", "n", "t", "e", "n", "t", "-", "T", "y", "p", "e", "'", ",", "'", "A", "u", "t", "h", "o", "r", "i", "z", "a", "t", "i", "o", "n", "'", "]", " ", "}", ")", ")", ";">>,
    <<"5", ".", " ", "S", "t", "a", "t", "i", "c", " ", "f", "i", "l", "e", "s", ":", " ", "a", "p", "p", ".", "u", "s", "e", "(", "e", "x", "p", "r", "e", "s", "s", ".", "s", "t", "a", "t", "i", "c", "(", "'", "p", "u", "b", "l", "i", "c", "'", ")", ")", ";">>,
    <<"6", ".", " ", "B", "o", "d", "y", " ", "p", "a", "r", "s", "e", "r", "s", ":", " ", "a", "p", "p", ".", "u", "s", "e", "(", "e", "x", "p", "r", "e", "s", "s", ".", "j", "s", "o", "n", "(", ")", ")", ";", " ", "a", "p", "p", ".", "u", "s", "e", "(", "e", "x", "p", "r", "e", "s", "s", ".", "u", "r", "l", "e", "n", "c", "o", "d", "e", "d", "(", "{", " ", "e", "x", "t", "e", "n", "d", "e", "d", ":", " ", "t", "r", "u", "e", " ", "}", ")", ")", ";">>,
    <<"7", ".", " ", "M", "o", "u", "n", "t", " ", "r", "o", "u", "t", "e", "s", " ", "u", "n", "d", "e", "r", " ", "/", "a", "p", "i", "/", "a", "u", "t", "h", " ", "a", "n", "d", " ", "/", "a", "p", "i", "/", "u", "s", "e", "r", "s", ".">>,
    <<"8", ".", " ", "G", "l", "o", "b", "a", "l", " ", "e", "r", "r", "o", "r", " ", "h", "a", "n", "d", "l", "e", "r", " ", "m", "i", "d", "d", "l", "e", "w", "a", "r", "e", " ", "a", "t", " ", "t", "h", "e", " ", "b", "o", "t", "t", "o", "m", ".">>,
    <<"9", ".", " ", "S", "t", "a", "r", "t", "u", "p", " ", "l", "o", "g", "s", ":">>,
    <<" ", " ", " ", "c", "o", "n", "s", "o", "l", "e", ".", "l", "o", "g", "(", BACKTICK, "S", "e", "r", "v", "e", "r", " ", "r", "u", "n", "n", "i", "n", "g", " ", "o", "n", " ", "p", "o", "r", "t", " ", "$", "{", "P", "O", "R", "T", "}", BACKTICK, ")", ";">>,
    <<" ", " ", " ", "c", "o", "n", "s", "o", "l", "e", ".", "l", "o", "g", "(", "'", "M", "o", "n", "g", "o", "D", "B", " ", "c", "o", "n", "n", "e", "c", "t", "e", "d", "'", ")", ";">>,
    <<"1", "0", ".", " ", "D", "o", " ", "N", "O", "T", " ", "u", "s", "e", " ", "n", "o", "d", "e", "m", "o", "n", " ", EM_DASH, " ", "o", "n", "l", "y", " ", "'", "n", "o", "d", "e", " ", "b", "a", "c", "k", "e", "n", "d", "/", "s", "e", "r", "v", "e", "r", ".", "j", "s", "'", " ", "i", "n", " ", "p", "r", "o", "d", "u", "c", "t", "i", "o", "n", ".">>,
    <<>> >>),
  \* lines 127-137
  routes |-> Text(<<
    <<>>,
    <<"C", "r", "e", "a", "t", "e", " ", "E", "x", "p", "r", "e", "s", "s", " ", "r", "o", "u", "t", "e", " ", "f", "i", "l", "e", " ", "w", "i", "t", "h", ":">>,
    <<"-", " ", "U", "s", "e", " ", "e", "x", "p", "r", "e", "s", "s", ".", "R", "o", "u", "t", "e", "r", "(", ")">>,
    <<"-", " ", "I", "m", "p", "o", "r", "t", " ", "c", "o", "n", "t", "r", "o", "l", "l", "e", "r", " ", "o", "r", " ", "w", "r", "i", "t", "e", " ", "i", "n", "l", "i", "n", "e", " ", "l", "o", "g", "i", "c">>,
    <<"-", " ", "U", "s", "e", " ", "p", "r", "o", "c", "e", "s", "s", ".", "e", "n", "v", ".", "J", "W", "T", "_", "S", "E", "C", "R", "E", "T", " ", "f", "o", "r", " ", "J", "W", "T", " ", "s", "i", "g", "n", "i", "n", "g", "/", "v", "e", "r", "i", "f", "i", "c", "a", "t", "i", "o", "n", " ", "(", "N", "E", "V", "E", "R", " ", "h", "a", "r", "d", "c", "o", "d", "e", ")">>,
    <<"-", " ", "P", "a", "s", "s", "w", "o", "r", "d", " ", "h", "a", "s", "h", "i", "n", "g", " ", "w", "i", "t", "h", " ", "b", "c", "r", "y", "p", "t", "j", "s", " ", "(", "s", "a", "l", "t", "R", "o", "u", "n", "d", "s", "=", "1", "0", ")">>,
    <<"-", " ", "R", "e", "t", "u", "r", "n", " ", "c", "o", "n", "s", "i", "s", "t", "e", "n", "t", " ", "J", "S", "O", "N", ":", " ", "{", " ", "s", "u", "c", "c", "e", "s", "s", ":", " ", "t", "r", "u", "e", "/", "f", "a", "l", "s", "e", ",", " ", "d", "a", "t", "a", ":", " ", "{", "}", ",", " ", "m", "e", "s", "s", "a", "g", "e", ":", " ", "'", "'", " ", "}">>,
    <<"-", " ", "P", "r", "o", "p", "e", "r", " ", "H", "T", "T", "P", " ", "s", "t", "a", "t", "u", "s", " ", "c", "o", "d", "e", "s", " ", "(", "2", "0", "0", ",", " ", "2", "0", "1", ",", " ", "4", "0", "0", ",", " ", "4", "0", "1", ",", " ", "4", "0", "4", ",", " ", "5", "0", "0", ")">>,
    <<"-", " ", "t", "r", "y", "/", "c", "a", "t", "c", "h", " ", "o", "n", " ", "e", "v", "e", "r", "y", " ", "a", "s", "y", "n", "c", " ", "h", "a", "n", "d", "l", "e", "r", " ", "w", "i", "t", "h", " ", "n", "e", "x", "t", "(", "e", "r", "r", ")">>,
    <<"-", " ", "F", "o", "r", " ", "a", "u", "t", "h", " ", "r", "o", "u", "t", "e", "s", ":", " ", "P", "O", "S", "T", " ", "/", "s", "i", "g", "n", "u", "p", ",", " ", "P", "O", "S", "T", " ", "/", "l", "o", "g", "i", "n", ",", " ", "G", "E", "T", " ", "/", "m", "e", " ", "(", "p", "r", "o", "t", "e", "c", "t", "e", "d", ")">>,
    <<>> >>),
  \* lines 140-148
  models |-> Text(<<
    <<>>,
    <<"C", "r", "e", "a", "t", "e", " ", "M", "o", "n", "g", "o", "o", "s", "e", " ", "m", "o", "d", "e", "l", " ", "w", "i", "t", "h", ":">>,
    <<"-", " ", "S", "c", "h", "e", "m", "a", " ", "d", "e", "f", "i", "n", "i", "t", "i", "o", "n">>,
    <<"-", " ", "F", "i", "e", "l", "d", " ", "v", "a", "l", "i", "d", "a", "t", "i", "o", "n">>,
    <<"-", " ", "R", "e", "q", "u", "i", "r", "e", "d", " ", "f", "i", "e", "l", "d", "s">>,
    <<"-", " ", "D", "e", "f", "a", "u", "l", "t", " ", "v", "a", "l", "u", "e", "s">>,
    <<"-", " ", "T", "i", "m", "e", "s", "t", "a", "m", "p", "s">>,
    <<"-", " ", "M", "e", "t", "h", "o", "d", "s", " ", "(", "i", "f", " ", "n", "e", "e", "d", "e", "d", ")">>,
    <<>> >>),
  \* lines 151-160
  package_json |-> Text(<<
    <<>>,
    <<"C", "r", "e", "a", "t", "e", " ", "p", "a", "c", "k", "a", "g", "e", ".", "j", "s", "o", "n", " ", "w", "i", "t", "h", ":">>,
    <<"-", " ", "\"", "m", "a", "i", "n", "\"", ":", " ", "\"", "b", "a", "c", "k", "e", "n", "d", "/", "s", "e", "r", "v", "e", "r", ".", "j", "s", "\"">>,
    <<"-", " ", "S", "c", "r", "i", "p", "t", "s", " ", "M", "U", "S", "T", " ", "b", "e", " ", "e", "x", "a", "c", "t", "l", "y", ":">>,
    <<" ", " ", " ", " ", "\"", "s", "t", "a", "r", "t", "\"", ":", " ", "\"", "n", "o", "d", "e", " ", "b", "a", "c", "k", "e", "n", "d", "/", "s", "e", "r", "v", "e", "r", ".", "j", "s", "\"">>,
    <<" ", " ", "D", "o", " ", "N", "O", "T", " ", "i", "n", "c", "l", "u", "d", "e", " ", "n", "o", "d", "e", "m", "o", "n", " ", "o", "r", " ", "d", "e", "v", " ", "s", "c", "r", "i", "p", "t", "s", ".">>,
    <<"-", " ", "D", "e", "p", "e", "n", "d", "e", "n", "c", "i", "e", "s", ":", " ", "e", "x", "p", "r", "e", "s", "s", ",", " ", "m", "o", "n", "g", "o", "o", "s", "e", ",", " ", "b", "c", "r", "y", "p", "t", "j", "s", ",", " ", "j", "s", "o", "n", "w", "e", "b", "t", "o", "k", "e", "n", ",", " ", "d", "o", "t", "e", "n", "v", ",", " ", "c", "o", "r", "s">>,
    <<"-", " ", "N", "o", " ", "d", "e", "v", "D", "e", "p", "e", "n", "d", "e", "n", "c", "i", "e", "s", " ", "n", "e", "e", "d", "e", "d">>,
    <<"-", " ", "P", "r", "o", "p", "e", "r", " ", "f", "o", "r", "m", "a", "t", "t", "i", "n", "g">>,
    <<>> >>),
  \* lines 163-170
  env_example |-> Text(<<
    <<>>,
    <<"C", "r", "e", "a", "t", "e", " ", ".", "e", "n", "v", ".", "e", "x", "a", "m", "p", "l", "e", " ", "w", "i", "t", "h", " ", "e", "x", "a", "c", "t", "l", "y", " ", "t", "h", "e", "s", "e", " ", "k", "e", "y", "s", " ", "(", "n", "o", " ", "v", "a", "l", "u", "e", "s", " ", "f", "o", "r", " ", "s", "e", "n", "s", "i", "t", "i", "v", "e", " ", "o", "n", "e", "s", ")", ":">>,
    <<" ", " ", "P", "O", "R", "T", "=", "5", "0", "0", "0">>,
    <<" ", " ", "M", "O", "N", "G", "O", "_", "U", "R", "I", "=">>,
    <<" ", " ", "J", "W", "T", "_", "S", "E", "C", "R", "E", "T", "=">>,
    <<"A", "d", "d", " ", "a", " ", "c", "o", "m", "m", "e", "n", "t", " ", "a", "b", "o", "v", "e", " ", "e", "a", "c", "h", " ", "e", "x", "p", "l", "a", "i", "n", "i", "n", "g", " ", "w", "h", "a", "t", " ", "i", "t", " ", "i", "s", ".">>,
    <<"D", "o", " ", "N", "O", "T", " ", "c", "r", "e", "a", "t", "e", " ", "a", " ", "r", "e", "a", "l", " ", ".", "e", "n", "v", " ", "f", "i", "l", "e", ".">>,
    <<>> >>),
  \* lines 173-182
  readme |-> Text(<<
    <<>>,
    <<"C", "r", "e", "a", "t", "e", " ", "R", "E", "A", "D", "M", "E", ".", "m", "d", " ", "w", "i", "t", "h", ":">>,
    <<"-", " ", "P", "r", "o", "j", "e", "c", "t", " ", "t", "i", "t", "l", "e", " ", "a", "n", "d", " ", "d", "e", "s", "c", "r", "i", "p", "t", "i", "o", "n">>,
    <<"-", " ", "F", "e", "a", "t", "u", "r", "e", "s", " ", "l", "i", "s", "t">>,
    <<"-", " ", "I", "n", "s", "t", "a", "l", "l", "a", "t", "i", "o", "n", " ", "i", "n", "s", "t", "r", "u", "c", "t", "i", "o", "n", "s">>,
    <<"-", " ", "E", "n", "v", "i", "r", "o", "n", "m", "e", "n", "t", " ", "s", "e", "t", "u", "p">>,
    <<"-", " ", "H", "o", "w", " ", "t", "o", " ", "r", "u", "n">>,
    <<"-", " ", "A", "P", "I", " ", "e", "n", "d", "p", "o", "i", "n", "t", "s", " ", "(", "i", "f", " ", "b", "a", "c", "k", "e", "n", "d", ")">>,
    <<"-", " ", "T", "e", "c", "h", "n", "o", "l", "o", "g", "i", "e", "s", " ", "u", "s", "e", "d">>,
    <<>> >>),
  \* lines 185-193
  gitignore |-> Text(<<
    <<>>,
    <<"C", "r", "e", "a", "t", "e", " ", "a", " ", ".", "g", "i", "t", "i", "g", "n", "o", "r", "e", " ", "t", "h", "a", "t", " ", "e", "x", "c", "l", "u", "d", "e", "s", ":">>,
    <<" ", " ", "n", "o", "d", "e", "_", "m", "o", "d", "u", "l", "e", "s", "/">>,
    <<" ", " ", ".", "e", "n", "v">>,
    <<" ", " ", "*", ".", "l", "o", "g">>,
    <<" ", " ", ".", "D", "S", "_", "S", "t", "o", "r", "e">>,
    <<" ", " ", "d", "i", "s", "t", "/">>,
    <<" ", " ", "b", "u", "i", "l", "d", "/">>,
    <<>> >>),
  \* lines 196-204
  sql |-> Text(<<
    <<>>,
    <<"C", "r", "e", "a", "t", "e", " ", "S", "Q", "L", " ", "s", "c", "h", "e", "m", "a", " ", "w", "i", "t", "h", ":">>,
    <<"-", " ", "T", "a", "b", "l", "e", " ", "d", "e", "f", "i", "n", "i", "t", "i", "o", "n", "s">>,
    <<"-", " ", "P", "r", "o", "p", "e", "r", " ", "d", "a", "t", "a", " ", "t", "y", "p", "e", "s">>,
    <<"-", " ", "P", "r", "i", "m", "a", "r", "y", " ", "k", "e", "y", "s">>,
    <<"-", " ", "F", "o", "r", "e", "i", "g", "n", " ", "k", "e", "y", "s", " ", "(", "i", "f", " ", "n", "e", "e", "d", "e", "d", ")">>,
    <<"-", " ", "I", "n", "d", "e", "x", "e", "s">>,
    <<"-", " ", "S", "a", "m", "p", "l", "e", " ", "d", "a", "t", "a", " ", "(", "o", "p", "t", "i", "o", "n", "a", "l", ")">>,
    <<>> >>),
  \* lines 207-207
  default |-> Text(<<
    <<"C", "r", "e", "a", "t", "e", " ", "t", "h", "i", "s", " ", "f", "i", "l", "e", " ", "w", "i", "t", "h", " ", "a", "p", "p", "r", "o", "p", "r", "i", "a", "t", "e", " ", "c", "o", "n", "t", "e", "n", "t", " ", "f", "o", "r", " ", "i", "t", "s", " ", "p", "u", "r", "p", "o", "s", "e", ".">> >>) ]

\* The branch build_file_instructions(filename) takes: the if/elif chain in the
\* order of the source.
build_file_instructions(f) ==
    IF EndsWith(f, <<".", "h", "t", "m", "l">>) THEN
        IF Contains(f, <<"l", "o", "g", "i", "n">>) \/ Contains(f, <<"s", "i", "g", "n", "u", "p">>)
            THEN INSTRUCTION_TEXTS.auth_page
        ELSE IF Contains(f, <<"d", "a", "s", "h", "b", "o", "a", "r", "d">>)
            THEN INSTRUCTION_TEXTS.dashboard_page
        ELSE IF Contains(f, <<"p", "r", "o", "f", "i", "l", "e">>)
                  \/ Contains(f, <<"s", "e", "t", "t", "i", "n", "g", "s">>)
            THEN INSTRUCTION_TEXTS.profile_page
        ELSE IF Contains(f, <<"i", "n", "d", "e", "x">>)
            THEN INSTRUCTION_TEXTS.homepage
        ELSE INSTRUCTION_TEXTS.html
    ELSE IF EndsWith(f, <<".", "c", "s", "s">>) THEN INSTRUCTION_TEXTS.css
    ELSE IF EndsWith(f, <<".", "j", "s">>) THEN
        IF /\ Contains(f, <<"a", "u", "t", "h">>)
           /\ EndsWith(f, <<".", "j", "s">>)
           /\ ~Contains(f, <<"b", "a", "c", "k", "e", "n", "d">>)
           /\ ~Contains(f, <<"r", "o", "u", "t", "e", "s">>)
            THEN INSTRUCTION_TEXTS.auth_js
        ELSE IF Contains(f, <<"d", "a", "s", "h", "b", "o", "a", "r", "d">>)
            THEN INSTRUCTION_TEXTS.dashboard_js
        ELSE INSTRUCTION_TEXTS.js
    ELSE IF f = <<"b", "a", "c", "k", "e", "n", "d", "/", "s", "e", "r", "v", "e", "r", ".", "j", "s">>
              \/ f = <<"s", "e", "r", "v", "e", "r", ".", "j", "s">>
        THEN INSTRUCTION_TEXTS.server
    ELSE IF Contains(f, <<"r", "o", "u", "t", "e", "s">>) THEN INSTRUCTION_TEXTS.routes
    ELSE IF Contains(f, <<"m", "o", "d", "e", "l", "s">>) THEN INSTRUCTION_TEXTS.models
    ELSE IF f = <<"p", "a", "c", "k", "a", "g", "e", ".", "j", "s", "o", "n">>
        THEN INSTRUCTION_TEXTS.package_json
    ELSE IF f = <<".", "e", "n", "v", ".", "e", "x", "a", "m", "p", "l", "e">>
        THEN INSTRUCTION_TEXTS.env_example
    ELSE IF f = <<"R", "E", "A", "D", "M", "E", ".", "m", "d">> THEN INSTRUCTION_TEXTS.readme
    ELSE IF f = <<".", "g", "i", "t", "i", "g", "n", "o", "r", "e">> THEN INSTRUCTION_TEXTS.gitignore
    ELSE IF EndsWith(f, <<".", "s", "q", "l">>) THEN INSTRUCTION_TEXTS.sql
    ELSE INSTRUCTION_TEXTS.default

NoInstructions == <<"<", "n", "o", "n", "e", ">">>

\* instructions = build_file_instructions(filename), called on its own.
BuildInstructions ==
    /\ pc = "instruct"
    /\ instructions' = build_file_instructions(filename)
    /\ pc' = "instructed"
    /\ UNCHANGED <<branding, filename, files_section, fpos, prompt>>
    /\ UNCHANGED <<parserVars, classifierVars, imageVars, requestVars, concurrentVars>>

NextInstructions == BuildInstructions

ComposerUnused ==
    /\ branding = <<>>
    /\ filename = <<>>
    /\ instructions = NoInstructions
    /\ files_section = <<>>
    /\ fpos = 0
    /\ prompt = <<>>

(***************************************************************************)
(* Input texts of the parser: up to MaxChunks chunks, joined by newlines.  *)
(***************************************************************************)
T_a == <<"a">>
T_b == <<"b">>
T_x == <<"x">>
T_y_padded == <<" ", "y", " ">>
T_x_y == <<"x", NL, "y">>
T_x_indented == <<" ", "x">>
T_file_a == FILE_MARKER \o <<" ", "a">>
T_fence_html == FENCE \o FenceTags[1]
T_fence_js == FENCE \o FenceTags[4]
T_fence_py == FENCE \o <<"p", "y">>
T_fence_indented == <<" ", " ">> \o FENCE

Chunks == {
    <<T_file_a>>, <<FENCE>>, <<T_x>>,
    <<T_fence_html, T_x, FENCE>>,
    <<T_fence_js, T_y_padded, T_fence_indented>>,
    <<FENCE, T_a, FENCE>>,
    <<T_fence_py, T_b, FENCE>> }

RECURSIVE Flatten(_)
Flatten(ss) == IF ss = <<>> THEN <<>> ELSE Head(ss) \o Flatten(Tail(ss))

SeqsUpTo(S, n) == UNION {[1..k -> S] : k \in 0..n}

\* The function entered with its argument: lines = text.split('\n'), nothing scanned.
ParserIdle ==
    /\ lines = Split(text, NL)
    /\ idx = 0
    /\ current_file = NoFile
    /\ in_code_block = FALSE
    /\ code_content = <<>>
    /\ files = EmptyDict
    /\ pc = "scan"

InitParse ==
    /\ \E cs \in SeqsUpTo(Chunks, MaxChunks) : text = Join(Flatten(cs), NL)
    /\ origin = <<>>
    /\ ParserIdle
    /\ ClassifierUnused
    /\ ImagesUnused
    /\ RequestUnused
    /\ ThreadsUnused
    /\ ComposerUnused

SpecParse == InitParse /\ [][NextParse]_vars

(***************************************************************************)
(* Inputs of the primary pass read line by line: marker lines with text    *)
(* ahead of the marker, backticks, blanks and a second marker; a marker    *)
(* line whose path is empty; an indented, tagged fence line; content lines.*)
(***************************************************************************)
L_marker_b == <<"F", "I", "L", "E", ":", " ", "b">>
L_marker_a == <<"#", "#", " ", "F", "I", "L", "E", ":", " ", BACKTICK, " ", "a", BACKTICK, " ", "F", "I", "L", "E", ":", " ", "b">>
L_marker_none == <<"F", "I", "L", "E", ":", " ", BACKTICK>>
L_fence == <<" ", " ", BACKTICK, BACKTICK, BACKTICK, "j", "s">>
L_x == <<"x">>
L_y == <<" ", "y", " ">>

Parts == { <<L_marker_b>>, <<L_marker_a>>, <<L_marker_none>>, <<L_fence>>, <<L_y>>,
           <<L_marker_b, L_fence, L_x>> }

InitMarkers ==
    /\ \E ps \in SeqsUpTo(Parts, MaxParts) : text = Join(Flatten(ps), NL)
    /\ origin = <<>>
    /\ ParserIdle
    /\ ClassifierUnused
    /\ ImagesUnused
    /\ RequestUnused
    /\ ThreadsUnused
    /\ ComposerUnused

SpecMarkers == InitMarkers /\ [][NextParse]_vars

(***************************************************************************)
(* Synthetic documents: a file set emitted as "FILE: <path>" lines, each   *)
(* followed by one fenced block holding the content.                       *)
(***************************************************************************)
SamplePaths == {T_a, T_b, <<BACKTICK, "a">>, <<" ", "b">>, <<>>}
SampleContents == {T_x, T_x_indented, T_x_y, <<>>, T_fence_indented}

Entries == [path : SamplePaths, content : SampleContents]

EmitEntry(e) == <<FILE_MARKER \o <<" ">> \o e.path, FENCE, e.content, FENCE>>

RECURSIVE EmitAll(_)
EmitAll(es) == IF es = <<>> THEN <<>> ELSE EmitEntry(Head(es)) \o EmitAll(Tail(es))

Emit(es) == Join(EmitAll(es), NL)

InitRoundTrip ==
    /\ origin \in SeqsUpTo(Entries, MaxFiles)
    /\ text = Emit(origin)
    /\ ParserIdle
    /\ ClassifierUnused
    /\ ImagesUnused
    /\ RequestUnused
    /\ ThreadsUnused
    /\ ComposerUnused

SpecRoundTrip == InitRoundTrip /\ [][NextParse]_vars

(***************************************************************************)
(* Descriptions given to the classifier: up to MaxWords fragments.         *)
(***************************************************************************)
Fragments == {
    <<"s", "h", "o", "p">>, <<"L", "O", "G", "I", "N">>, <<"b", "l", "o", "g">>,
    <<"w", "o", "r", "k">>, <<"p", "a", "g", "e", "s">>, <<"s", "i", "g", "n">>,
    <<" ">>, <<"u", "p">>, <<"s", "i", "t", "e">> }

InitClassify ==
    /\ \E ws \in SeqsUpTo(Fragments, MaxWords) : description = Flatten(ws)
    /\ structure_info = NoStructure
    /\ ParserUnused
    /\ ImagesUnused
    /\ RequestUnused
    /\ ThreadsUnused
    /\ ComposerUnused
    /\ pc = "classify"

SpecClassify == InitClassify /\ [][NextClassify]_vars

(***************************************************************************)
(* get_pexels_images called on its own: up to MaxKeywords keywords.        *)
(***************************************************************************)
SampleKeywords == {<<"c", "a", "f", "e">>, <<"g", "y", "m">>}
SampleKeys == {NoKey, <<>>, <<"k", "e", "y">>}

InitImages ==
    /\ keywords \in SeqsUpTo(SampleKeywords, MaxKeywords)
    /\ pexels_api_key \in SampleKeys
    /\ kpos = 0
    /\ image_urls = <<>>
    /\ http_log = <<>>
    /\ replies = <<>>
    /\ ret = "pexels_returned"
    /\ ParserUnused
    /\ ClassifierUnused
    /\ RequestUnused
    /\ ThreadsUnused
    /\ ComposerUnused
    /\ pc = "pexels_enter"

SpecImages == InitImages /\ [][NextImages]_vars

(***************************************************************************)
(* Descriptions given to extract_keywords_from_description: up to MaxWords *)
(* fragments.                                                              *)
(***************************************************************************)
TopicFragments == {
    <<"C", "o", "f", "f", "e", "e">>,
    <<" ">>,
    <<"s", "h", "o", "p">>,
    <<"f", "o", "o", "d">>,
    <<"t", "e", "c", "h">>,
    <<"s", "i", "t", "e">>,
    <<"t", "r", "a", "v", "e", "l">>,
    <<"P", "O", "R", "T", "F", "O", "L", "I", "O">>,
    <<"r", "e", "s", "t", "a", "u", "r", "a", "n", "t">> }

InitKeywords ==
    /\ \E ws \in SeqsUpTo(TopicFragments, MaxWords) : description = Flatten(ws)
    /\ structure_info = NoStructure
    /\ pexels_api_key = NoKey
    /\ keywords = <<>>
    /\ kpos = 0
    /\ image_urls = <<>>
    /\ http_log = <<>>
    /\ replies = <<>>
    /\ ret = "none"
    /\ ParserUnused
    /\ RequestUnused
    /\ ThreadsUnused
    /\ ComposerUnused
    /\ pc = "extract"

SpecKeywords == InitKeywords /\ [][NextKeywords]_vars

(***************************************************************************)
(* One POST request to either endpoint, the generation service and the     *)
(* repository service each answering in one of the ways they can.          *)
(***************************************************************************)
Absent == <<"<absent>">>

SampleDescriptions == {Absent, NotAString, <<" ">>, <<"t", "o", "d", "o", " ", "a", "p", "p", " ">>,
                       <<"C", "o", "f", "f", "e", "e", " ", "s", "h", "o", "p">>}
SampleTypes == {Absent, NotAString, VANILLA, <<"R", "e", "a", "c", "t">>, <<"s", "p", "a">>}

\* The JSON object with the given description and type, a field left out when Absent.
Body(d, t) ==
    [k \in (IF d = Absent THEN {} ELSE {"description"})
           \cup (IF t = Absent THEN {} ELSE {"type"}) |->
        IF k = "description" THEN d ELSE t]

Bodies == {Body(d, t) : d \in SampleDescriptions, t \in SampleTypes}

\* Generated texts: one in the FILE: convention, one with a marker that no block
\* follows ahead of a file in the convention, one of three bare fenced blocks, and
\* two the parser finds no file in.
GenTexts == {Join(<<T_file_a, FENCE, T_x, FENCE>>, NL),
             Join(<<L_marker_b, T_file_a, FENCE, T_x, FENCE>>, NL),
             Join(<<T_fence_html, T_a, FENCE, FENCE, T_b, FENCE, T_fence_js, T_x, FENCE>>, NL),
             Join(<<FENCE, T_a, FENCE, FENCE, T_b, FENCE>>, NL),
             T_x}

GeminiPlans == {[kind |-> "raises"], [kind |-> "no_text"]}
               \cup {[kind |-> "text", text |-> t] : t \in GenTexts}

GithubPlans == {[kind |-> "raises"],
                [kind |-> "result", result |-> [success |-> FALSE, error |-> "name taken"]],
                [kind |-> "result", result |-> [success |-> TRUE, repo_url |-> "url"]]}

InitRequest ==
    /\ request \in [endpoint : {GENERATE_WEBSITE, PUSH_TO_GITHUB}, data : Bodies]
    /\ gemini \in GeminiPlans
    /\ github \in IF request.endpoint = PUSH_TO_GITHUB THEN GithubPlans
                  ELSE {[kind |-> "none"]}
    /\ pexels_api_key \in {NoKey, <<"k", "e", "y">>}
    /\ project_type = <<>>
    /\ social_media = EmptyDict
    /\ contact = EmptyDict
    /\ n_generate = 0
    /\ n_push = 0
    /\ response = NoResponse
    /\ keywords = <<>>
    /\ kpos = 0
    /\ image_urls = <<>>
    /\ http_log = <<>>
    /\ replies = <<>>
    /\ ret = "none"
    /\ ParserUnused
    /\ ClassifierUnused
    /\ ThreadsUnused
    /\ ComposerUnused
    /\ pc = "validate"

SpecRequest == InitRequest /\ [][NextRequest]_vars

(***************************************************************************)
(* Two concurrent requests, each with its own description and its own      *)
(* generated text.                                                         *)
(***************************************************************************)
ConcurrentTexts == {Join(<<T_file_a, FENCE, T_x, FENCE>>, NL),
                    Join(<<T_file_a, T_fence_js, T_b, T_y_padded, FENCE>>, NL),
                    T_x}

ConcurrentDescriptions == {<<"C", "o", "f", "f", "e", "e">>, <<"g", "y", "m", " ", "s", "i", "t", "e">>}

InitConcurrent ==
    /\ \E ds \in [Requests -> ConcurrentDescriptions], ts \in [Requests -> ConcurrentTexts] :
          threads = [r \in Requests |->
                        [description |-> ds[r], text |-> ts[r], pc |-> "extract",
                         keywords |-> <<>>, files |-> EmptyDict]]
    /\ frames = [f \in Requests |-> NoFrame]
    /\ ParserUnused
    /\ ClassifierUnused
    /\ ImagesUnused
    /\ RequestUnused
    /\ ComposerUnused
    /\ pc = "threads"

SpecConcurrent == InitConcurrent /\ [][NextConcurrent]_vars

(***************************************************************************)
(* prompt_builder.py: get_structured_prompt.                               *)
(***************************************************************************)
DIGITS == <<"0", "1", "2", "3", "4", "5", "6", "7", "8", "9">>

\* str(n) for a natural number n
RECURSIVE Str(_)
Str(n) == IF n < 10 THEN <<DIGITS[n + 1]>> ELSE Str(n \div 10) \o <<DIGITS[(n % 10) + 1]>>

IsUpper(c) == \E k \in DOMAIN UPPERCASE : UPPERCASE[k] = c
IsLower(c) == \E k \in DOMAIN LOWERCASE : LOWERCASE[k] = c
UpperChar(c) == IF IsLower(c) THEN UPPERCASE[CHOOSE k \in DOMAIN LOWERCASE : LOWERCASE[k] = c] ELSE c
LowerChar(c) == IF IsUpper(c) THEN LOWERCASE[CHOOSE k \in DOMAIN UPPERCASE : UPPERCASE[k] = c] ELSE c

\* str.title(): a letter that follows a letter is lower-cased, any other letter upper-cased.
Title(s) ==
    [i \in DOMAIN s |->
        IF i > 1 /\ (IsUpper(s[i - 1]) \/ IsLower(s[i - 1])) THEN LowerChar(s[i]) ELSE UpperChar(s[i])]

\* str.capitalize()
Capitalize(s) == [i \in DOMAIN s |-> IF i = 1 THEN UpperChar(s[i]) ELSE LowerChar(s[i])]

\* s.replace(pat, new) for a non-empty pat
RECURSIVE Replace(_, _, _)
Replace(s, pat, new) ==
    LET p == Find(s, pat, 1)
    IN  IF p = 0 THEN s
        ELSE SubSeq(s, 1, p - 1) \o new \o Replace(Tail_From(s, p + Len(pat)), pat, new)

\* get_*_structure()['description'] (website_structures.py)
StructureDescription(type) ==
    CASE type = "landing_page" -> <<"S", "i", "n", "g", "l", "e", "-", "p", "a", "g", "e", " ", "l", "a", "n", "d", "i", "n", "g", " ", "s", "i", "t", "e">>
      [] type = "multi_page" -> <<"M", "u", "l", "t", "i", "-", "p", "a", "g", "e", " ", "w", "e", "b", "s", "i", "t", "e", " ", "w", "i", "t", "h", " ", "n", "a", "v", "i", "g", "a", "t", "i", "o", "n">>
      [] type = "portfolio" -> <<"P", "o", "r", "t", "f", "o", "l", "i", "o", " ", "w", "e", "b", "s", "i", "t", "e", " ", "w", "i", "t", "h", " ", "p", "r", "o", "j", "e", "c", "t", " ", "s", "h", "o", "w", "c", "a", "s", "e">>
      [] type = "blog" -> <<"B", "l", "o", "g", " ", "w", "e", "b", "s", "i", "t", "e", " ", "w", "i", "t", "h", " ", "a", "r", "t", "i", "c", "l", "e", " ", "p", "a", "g", "e", "s">>
      [] type = "web_application" -> <<"P", "r", "o", "d", "u", "c", "t", "i", "o", "n", "-", "r", "e", "a", "d", "y", " ", "f", "u", "l", "l", "-", "s", "t", "a", "c", "k", " ", "w", "e", "b", " ", "a", "p", "p", "l", "i", "c", "a", "t", "i", "o", "n", " ", "w", "i", "t", "h", " ", "a", "u", "t", "h", "e", "n", "t", "i", "c", "a", "t", "i", "o", "n", " ", "(", "R", "e", "n", "d", "e", "r", "-", "d", "e", "p", "l", "o", "y", "a", "b", "l", "e", ")">>
      [] type = "ecommerce" -> <<"E", "-", "c", "o", "m", "m", "e", "r", "c", "e", " ", "w", "e", "b", "s", "i", "t", "e", " ", "w", "i", "t", "h", " ", "s", "h", "o", "p", "p", "i", "n", "g", " ", "c", "a", "r", "t">>

\* structure_info['type'] as a Python string
TypeName(type) ==
    CASE type = "landing_page" -> <<"l", "a", "n", "d", "i", "n", "g", "_", "p", "a", "g", "e">>
      [] type = "multi_page" -> <<"m", "u", "l", "t", "i", "_", "p", "a", "g", "e">>
      [] type = "portfolio" -> <<"p", "o", "r", "t", "f", "o", "l", "i", "o">>
      [] type = "blog" -> <<"b", "l", "o", "g">>
      [] type = "web_application" -> <<"w", "e", "b", "_", "a", "p", "p", "l", "i", "c", "a", "t", "i", "o", "n">>
      [] type = "ecommerce" -> <<"e", "c", "o", "m", "m", "e", "r", "c", "e">>

\* files_section = f"You must generate exactly {len(files_list)} files:\n\n"
FilesSectionStart(files_list) ==
    <<"Y", "o", "u", " ", "m", "u", "s", "t", " ", "g", "e", "n", "e", "r", "a", "t", "e", " ", "e", "x", "a", "c", "t", "l", "y", " ">> \o Str(Len(files_list)) \o <<" ", "f", "i", "l", "e", "s", ":", NL, NL>>

\* The code block template of one file: the if/elif chain on the suffix.
CodeBlockTemplate(f, instr) ==
    IF EndsWith(f, <<".", "h", "t", "m", "l">>) THEN
        FENCE \o <<"h", "t", "m", "l", NL>> \o <<"<", "!", "-", "-", " ">> \o instr \o <<" ", "-", "-", ">", NL>> \o <<"[", "Y", "o", "u", "r", " ", "H", "T", "M", "L", " ", "c", "o", "d", "e", " ", "h", "e", "r", "e", "]", NL>> \o FENCE \o <<NL, NL>>
    ELSE IF EndsWith(f, <<".", "c", "s", "s">>) THEN
        FENCE \o <<"c", "s", "s", NL>> \o <<"/", "*", " ">> \o instr \o <<" ", "*", "/", NL>> \o <<"[", "Y", "o", "u", "r", " ", "C", "S", "S", " ", "c", "o", "d", "e", " ", "h", "e", "r", "e", "]", NL>> \o FENCE \o <<NL, NL>>
    ELSE IF EndsWith(f, <<".", "j", "s">>) THEN
        FENCE \o <<"j", "a", "v", "a", "s", "c", "r", "i", "p", "t", NL>> \o <<"/", "/", " ">> \o instr \o <<NL>> \o <<"[", "Y", "o", "u", "r", " ", "J", "a", "v", "a", "S", "c", "r", "i", "p", "t", " ", "c", "o", "d", "e", " ", "h", "e", "r", "e", "]", NL>> \o FENCE \o <<NL, NL>>
    ELSE IF EndsWith(f, <<".", "j", "s", "o", "n">>) THEN
        FENCE \o <<"j", "s", "o", "n", NL>> \o <<"[", "Y", "o", "u", "r", " ", "J", "S", "O", "N", " ", "c", "o", "d", "e", " ", "h", "e", "r", "e", "]", NL>> \o FENCE \o <<NL, NL>>
    ELSE IF EndsWith(f, <<".", "m", "d">>) THEN
        FENCE \o <<"m", "a", "r", "k", "d", "o", "w", "n", NL>> \o <<"[", "Y", "o", "u", "r", " ", "M", "a", "r", "k", "d", "o", "w", "n", " ", "c", "o", "n", "t", "e", "n", "t", " ", "h", "e", "r", "e", "]", NL>> \o FENCE \o <<NL, NL>>
    ELSE IF EndsWith(f, <<".", "s", "q", "l">>) THEN
        FENCE \o <<"s", "q", "l", NL>> \o <<"[", "Y", "o", "u", "r", " ", "S", "Q", "L", " ", "c", "o", "d", "e", " ", "h", "e", "r", "e", "]", NL>> \o FENCE \o <<NL, NL>>
    ELSE
        FENCE \o <<NL>> \o <<"[", "Y", "o", "u", "r", " ", "c", "o", "d", "e", " ", "h", "e", "r", "e", "]", NL>> \o FENCE \o <<NL, NL>>

\* A variant that leaves out the "FILE: " in front of the path.
FileSection_unmarked(f, instr) == f \o <<NL>> \o CodeBlockTemplate(f, instr)

\* What one iteration of "for filename in files_list" appends to files_section.
FileSection(f, instr) == <<"F", "I", "L", "E", ":", " ">> \o f \o <<NL>> \o CodeBlockTemplate(f, instr)

\* branding_section
BrandingSection(b) ==
    <<NL, "B", "R", "A", "N", "D", "I", "N", "G", " ", "(", "u", "s", "e", " ", "t", "h", "r", "o", "u", "g", "h", "o", "u", "t", " ", "A", "L", "L", " ", "f", "i", "l", "e", "s", ")", ":", NL>>
    \o <<"-", " ", "C", "o", "m", "p", "a", "n", "y", " ", "N", "a", "m", "e", ":", " ">> \o Get(b, "company_name", <<"M", "y", " ", "C", "o", "m", "p", "a", "n", "y">>) \o <<NL>>
    \o <<"-", " ", "T", "a", "g", "l", "i", "n", "e", ":", " ">> \o Get(b, "tagline", <<"Y", "o", "u", "r", " ", "t", "a", "g", "l", "i", "n", "e", " ", "h", "e", "r", "e">>) \o <<NL>>
    \o <<"-", " ", "P", "r", "i", "m", "a", "r", "y", " ", "C", "o", "l", "o", "r", ":", " ">> \o Get(b, "primary_color", <<"#", "6", "6", "7", "e", "e", "a">>) \o <<NL>>
    \o <<"-", " ", "S", "e", "c", "o", "n", "d", "a", "r", "y", " ", "C", "o", "l", "o", "r", ":", " ">> \o Get(b, "secondary_color", <<"#", "7", "6", "4", "b", "a", "2">>) \o <<NL>>

\* The keys of the social_media dict in insertion order (app.py), as Python strings.
SOCIAL_MEDIA_ITEMS == <<
    [key |-> "instagram", name |-> <<"i", "n", "s", "t", "a", "g", "r", "a", "m">>],
    [key |-> "twitter", name |-> <<"t", "w", "i", "t", "t", "e", "r">>],
    [key |-> "linkedin", name |-> <<"l", "i", "n", "k", "e", "d", "i", "n">>],
    [key |-> "facebook", name |-> <<"f", "a", "c", "e", "b", "o", "o", "k">>],
    [key |-> "email", name |-> <<"e", "m", "a", "i", "l">>],
    [key |-> "phone", name |-> <<"p", "h", "o", "n", "e">>] >>

\* for platform, username in social_media.items(): the lines of items i, i+1, ...
RECURSIVE SocialLines(_, _)
SocialLines(sm, i) ==
    IF i > Len(SOCIAL_MEDIA_ITEMS) THEN <<>>
    ELSE LET item == SOCIAL_MEDIA_ITEMS[i]
             username == IF item.key \in DOMAIN sm THEN sm[item.key] ELSE <<>>
             label == IF item.key = "email" THEN <<"E", "m", "a", "i", "l">>
                      ELSE IF item.key = "phone" THEN <<"P", "h", "o", "n", "e">>
                      ELSE Capitalize(item.name)
         IN  (IF username # <<>> THEN label \o <<":", " ">> \o username \o <<NL>> ELSE <<>>)
             \o SocialLines(sm, i + 1)

\* A variant that writes the header whether or not a platform is filled in.
SocialSection_unconditional(sm) == <<NL, "S", "O", "C", "I", "A", "L", " ", "M", "E", "D", "I", "A", " ", "(", "a", "d", "d", " ", "t", "o", " ", "f", "o", "o", "t", "e", "r", ")", ":", NL>> \o SocialLines(sm, 1)

\* social_section
SocialSection(sm) ==
    IF \E k \in DOMAIN sm : sm[k] # <<>>
    THEN <<NL, "S", "O", "C", "I", "A", "L", " ", "M", "E", "D", "I", "A", " ", "(", "a", "d", "d", " ", "t", "o", " ", "f", "o", "o", "t", "e", "r", ")", ":", NL>> \o SocialLines(sm, 1)
    ELSE <<>>

\* name = page.split('/')[-1].replace('.html', '').replace('-', ' ').title()
PageName(page) ==
    LET parts == Split(page, "/")
    IN  Title(Replace(Replace(parts[Len(parts)], <<".", "h", "t", "m", "l">>, <<>>), <<"-">>, <<" ">>))

\* A variant that keeps the auth pages: every html page with its name.
PageNames_with_auth_pages(files_list) ==
    LET html == SelectSeq(files_list, LAMBDA f : EndsWith(f, <<".", "h", "t", "m", "l">>))
    IN  [i \in 1..Len(html) |-> [name |-> PageName(html[i]), path |-> html[i]]]

\* page_names: the (name, path) pairs of the html pages other than the auth pages.
RECURSIVE PageNames(_)
PageNames(files_list) ==
    IF files_list = <<>> THEN <<>>
    ELSE LET page == Head(files_list)
         IN  (IF EndsWith(page, <<".", "h", "t", "m", "l">>)
                    /\ PageName(page) \notin {<<"L", "o", "g", "i", "n">>, <<"S", "i", "g", "n", "u", "p">>, <<"S", "i", "g", "n", " ", "U", "p">>}
              THEN <<[name |-> PageName(page), path |-> page]>> ELSE <<>>)
             \o PageNames(Tail(files_list))

\* for name, path in page_names[:5]: the lines appended
RECURSIVE NavigationLines(_)
NavigationLines(pages) ==
    IF pages = <<>> THEN <<>>
    ELSE <<"-", " ">> \o Head(pages).name \o <<" ", "(", "l", "i", "n", "k", "s", " ", "t", "o", " ">> \o Head(pages).path \o <<")", NL>>
         \o NavigationLines(Tail(pages))

\* navigation_section
NavigationSection(type, files_list) ==
    IF type # "landing_page"
    THEN LET names == PageNames(files_list)
         IN  Text(<<
    <<>>,
    <<"N", "A", "V", "I", "G", "A", "T", "I", "O", "N", " ", "(", "i", "n", "c", "l", "u", "d", "e", " ", "o", "n", " ", "A", "L", "L", " ", "p", "a", "g", "e", "s", ")", ":">>,
    <<"C", "r", "e", "a", "t", "e", " ", "c", "o", "n", "s", "i", "s", "t", "e", "n", "t", " ", "n", "a", "v", "i", "g", "a", "t", "i", "o", "n", " ", "w", "i", "t", "h", " ", "t", "h", "e", "s", "e", " ", "p", "a", "g", "e", "s", ":">> >>) \o <<NL>>
             \o NavigationLines(SubSeq(names, 1, Min({5, Len(names)})))
             \o Text(<<
    <<>>,
    <<"N", "a", "v", "i", "g", "a", "t", "i", "o", "n", " ", "s", "h", "o", "u", "l", "d", ":">>,
    <<"-", " ", "B", "e", " ", "r", "e", "s", "p", "o", "n", "s", "i", "v", "e", " ", "(", "h", "a", "m", "b", "u", "r", "g", "e", "r", " ", "m", "e", "n", "u", " ", "o", "n", " ", "m", "o", "b", "i", "l", "e", ")">>,
    <<"-", " ", "H", "i", "g", "h", "l", "i", "g", "h", "t", " ", "c", "u", "r", "r", "e", "n", "t", " ", "p", "a", "g", "e">>,
    <<"-", " ", "B", "e", " ", "c", "o", "n", "s", "i", "s", "t", "e", "n", "t", " ", "a", "c", "r", "o", "s", "s", " ", "a", "l", "l", " ", "p", "a", "g", "e", "s">>,
    <<"-", " ", "I", "n", "c", "l", "u", "d", "e", " ", "l", "o", "g", "o", "/", "c", "o", "m", "p", "a", "n", "y", " ", "n", "a", "m", "e">> >>) \o <<NL>>
    ELSE <<>>

\* The fixed text that follows {files_section} in the main prompt.
CRITICAL_REQUIREMENTS ==
    Text(<<
    <<>>,
    <<"C", "R", "I", "T", "I", "C", "A", "L", " ", "R", "E", "Q", "U", "I", "R", "E", "M", "E", "N", "T", "S", ":">>,
    <<>>,
    <<"0", ".", " ", "E", "X", "T", "E", "R", "N", "A", "L", " ", "L", "I", "B", "R", "A", "R", "I", "E", "S", ":">>,
    <<" ", " ", " ", "-", " ", "I", "f", " ", "u", "s", "i", "n", "g", " ", "F", "o", "n", "t", " ", "A", "w", "e", "s", "o", "m", "e", " ", "o", "r", " ", "o", "t", "h", "e", "r", " ", "C", "D", "N", " ", "l", "i", "b", "r", "a", "r", "i", "e", "s", ",", " ", "u", "s", "e", " ", "S", "I", "M", "P", "L", "E", " ", "l", "i", "n", "k", "s">>,
    <<" ", " ", " ", "-", " ", "E", "x", "a", "m", "p", "l", "e", ":", " ", "<", "l", "i", "n", "k", " ", "h", "r", "e", "f", "=", "\"", "h", "t", "t", "p", "s", ":", "/", "/", "c", "d", "n", "j", "s", ".", "c", "l", "o", "u", "d", "f", "l", "a", "r", "e", ".", "c", "o", "m", "/", "a", "j", "a", "x", "/", "l", "i", "b", "s", "/", "f", "o", "n", "t", "-", "a", "w", "e", "s", "o", "m", "e", "/", "6", ".", "0", ".", "0", "/", "c", "s", "s", "/", "a", "l", "l", ".", "m", "i", "n", ".", "c", "s", "s", "\"", " ", "r", "e", "l", "=", "\"", "s", "t", "y", "l", "e", "s", "h", "e", "e", "t", "\"", ">">>,
    <<" ", " ", " ", "-", " ", "N", "E", "V", "E", "R", " ", "i", "n", "c", "l", "u", "d", "e", " ", "i", "n", "t", "e", "g", "r", "i", "t", "y", "=", "\"", "\"", " ", "o", "r", " ", "c", "r", "o", "s", "s", "o", "r", "i", "g", "i", "n", "=", "\"", "\"", " ", "a", "t", "t", "r", "i", "b", "u", "t", "e", "s">>,
    <<" ", " ", " ", "-", " ", "T", "h", "e", "s", "e", " ", "c", "a", "n", " ", "c", "a", "u", "s", "e", " ", "p", "a", "r", "s", "i", "n", "g", " ", "i", "s", "s", "u", "e", "s">>,
    <<>>,
    <<"1", ".", " ", "C", "O", "N", "S", "I", "S", "T", "E", "N", "C", "Y", " ", "A", "C", "R", "O", "S", "S", " ", "A", "L", "L", " ", "P", "A", "G", "E", "S", ":">>,
    <<" ", " ", " ", "-", " ", "U", "s", "e", " ", "e", "x", "a", "c", "t", " ", "s", "a", "m", "e", " ", "c", "o", "l", "o", "r", " ", "s", "c", "h", "e", "m", "e", " ", "e", "v", "e", "r", "y", "w", "h", "e", "r", "e">>,
    <<" ", " ", " ", "-", " ", "C", "o", "n", "s", "i", "s", "t", "e", "n", "t", " ", "h", "e", "a", "d", "e", "r", " ", "a", "n", "d", " ", "f", "o", "o", "t", "e", "r", " ", "o", "n", " ", "a", "l", "l", " ", "p", "a", "g", "e", "s">>,
    <<" ", " ", " ", "-", " ", "S", "a", "m", "e", " ", "f", "o", "n", "t", " ", "f", "a", "m", "i", "l", "y", " ", "a", "n", "d", " ", "s", "i", "z", "e", "s">>,
    <<" ", " ", " ", "-", " ", "U", "n", "i", "f", "i", "e", "d", " ", "d", "e", "s", "i", "g", "n", " ", "l", "a", "n", "g", "u", "a", "g", "e">>,
    <<>>,
    <<"2", ".", " ", "R", "E", "S", "P", "O", "N", "S", "I", "V", "E", " ", "D", "E", "S", "I", "G", "N", ":">>,
    <<" ", " ", " ", "-", " ", "M", "o", "b", "i", "l", "e", "-", "f", "i", "r", "s", "t", " ", "a", "p", "p", "r", "o", "a", "c", "h">>,
    <<" ", " ", " ", "-", " ", "B", "r", "e", "a", "k", "p", "o", "i", "n", "t", "s", ":", " ", "7", "6", "8", "p", "x", " ", "(", "t", "a", "b", "l", "e", "t", ")", ",", " ", "1", "0", "2", "4", "p", "x", " ", "(", "d", "e", "s", "k", "t", "o", "p", ")">>,
    <<" ", " ", " ", "-", " ", "T", "o", "u", "c", "h", "-", "f", "r", "i", "e", "n", "d", "l", "y", " ", "b", "u", "t", "t", "o", "n", "s", " ", "o", "n", " ", "m", "o", "b", "i", "l", "e">>,
    <<" ", " ", " ", "-", " ", "R", "e", "a", "d", "a", "b", "l", "e", " ", "t", "e", "x", "t", " ", "s", "i", "z", "e", "s", " ", "o", "n", " ", "a", "l", "l", " ", "d", "e", "v", "i", "c", "e", "s">>,
    <<>>,
    <<"3", ".", " ", "F", "I", "L", "E", " ", "O", "R", "G", "A", "N", "I", "Z", "A", "T", "I", "O", "N", ":">>,
    <<" ", " ", " ", "-", " ", "U", "s", "e", " ", "p", "r", "o", "p", "e", "r", " ", "r", "e", "l", "a", "t", "i", "v", "e", " ", "p", "a", "t", "h", "s">>,
    <<" ", " ", " ", "-", " ", "L", "i", "n", "k", " ", "C", "S", "S", ":", " ", "<", "l", "i", "n", "k", " ", "r", "e", "l", "=", "\"", "s", "t", "y", "l", "e", "s", "h", "e", "e", "t", "\"", " ", "h", "r", "e", "f", "=", "\"", "c", "s", "s", "/", "s", "t", "y", "l", "e", ".", "c", "s", "s", "\"", ">">>,
    <<" ", " ", " ", "-", " ", "L", "i", "n", "k", " ", "J", "S", ":", " ", "<", "s", "c", "r", "i", "p", "t", " ", "s", "r", "c", "=", "\"", "j", "s", "/", "s", "c", "r", "i", "p", "t", ".", "j", "s", "\"", ">", "<", "/", "s", "c", "r", "i", "p", "t", ">">>,
    <<" ", " ", " ", "-", " ", "F", "o", "r", " ", "n", "e", "s", "t", "e", "d", " ", "p", "a", "g", "e", "s", ",", " ", "a", "d", "j", "u", "s", "t", " ", "p", "a", "t", "h", "s", " ", "a", "c", "c", "o", "r", "d", "i", "n", "g", "l", "y">>,
    <<>>,
    <<"4", ".", " ", "C", "O", "D", "E", " ", "Q", "U", "A", "L", "I", "T", "Y", ":">>,
    <<" ", " ", " ", "-", " ", "C", "l", "e", "a", "n", ",", " ", "c", "o", "m", "m", "e", "n", "t", "e", "d", " ", "c", "o", "d", "e">>,
    <<" ", " ", " ", "-", " ", "S", "e", "m", "a", "n", "t", "i", "c", " ", "H", "T", "M", "L", "5">>,
    <<" ", " ", " ", "-", " ", "M", "o", "d", "e", "r", "n", " ", "C", "S", "S", " ", "(", "F", "l", "e", "x", "b", "o", "x", "/", "G", "r", "i", "d", ")">>,
    <<" ", " ", " ", "-", " ", "V", "a", "n", "i", "l", "l", "a", " ", "J", "a", "v", "a", "S", "c", "r", "i", "p", "t", " ", "(", "n", "o", " ", "j", "Q", "u", "e", "r", "y", ")">>,
    <<" ", " ", " ", "-", " ", "A", "c", "c", "e", "s", "s", "i", "b", "i", "l", "i", "t", "y", " ", "(", "A", "R", "I", "A", " ", "l", "a", "b", "e", "l", "s", ",", " ", "a", "l", "t", " ", "t", "a", "g", "s", ")">>,
    <<>>,
    <<"5", ".", " ", "E", "X", "T", "E", "R", "N", "A", "L", " ", "R", "E", "S", "O", "U", "R", "C", "E", "S", ":">>,
    <<" ", " ", " ", "-", " ", "D", "O", " ", "N", "O", "T", " ", "u", "s", "e", " ", "i", "n", "t", "e", "g", "r", "i", "t", "y", " ", "o", "r", " ", "c", "r", "o", "s", "s", "o", "r", "i", "g", "i", "n", " ", "a", "t", "t", "r", "i", "b", "u", "t", "e", "s", " ", "o", "n", " ", "C", "D", "N", " ", "l", "i", "n", "k", "s">>,
    <<" ", " ", " ", "-", " ", "U", "s", "e", " ", "s", "i", "m", "p", "l", "e", " ", "C", "D", "N", " ", "l", "i", "n", "k", "s", " ", "w", "i", "t", "h", "o", "u", "t", " ", "h", "a", "s", "h", "e", "s">>,
    <<" ", " ", " ", "-", " ", "E", "x", "a", "m", "p", "l", "e", ":", " ", "<", "l", "i", "n", "k", " ", "r", "e", "l", "=", "\"", "s", "t", "y", "l", "e", "s", "h", "e", "e", "t", "\"", " ", "h", "r", "e", "f", "=", "\"", "h", "t", "t", "p", "s", ":", "/", "/", "c", "d", "n", "j", "s", ".", "c", "l", "o", "u", "d", "f", "l", "a", "r", "e", ".", "c", "o", "m", "/", "a", "j", "a", "x", "/", "l", "i", "b", "s", "/", "f", "o", "n", "t", "-", "a", "w", "e", "s", "o", "m", "e", "/", "6", ".", "0", ".", "0", "/", "c", "s", "s", "/", "a", "l", "l", ".", "m", "i", "n", ".", "c", "s", "s", "\"", ">">>,
    <<" ", " ", " ", "-", " ", "D", "O", " ", "N", "O", "T", " ", "i", "n", "c", "l", "u", "d", "e", " ", "i", "n", "t", "e", "g", "r", "i", "t", "y", "=", "\"", "s", "h", "a", ".", ".", ".", "\"", " ", "a", "t", "t", "r", "i", "b", "u", "t", "e", "s">>,
    <<" ", " ", " ", "-", " ", "T", "h", "e", "s", "e", " ", "c", "a", "u", "s", "e", " ", "i", "s", "s", "u", "e", "s", " ", "a", "n", "d", " ", "a", "r", "e", " ", "n", "o", "t", " ", "n", "e", "e", "d", "e", "d", " ", "f", "o", "r", " ", "t", "h", "i", "s", " ", "u", "s", "e", " ", "c", "a", "s", "e">> >>) \o <<NL>>

\* prompt += ... if needs_backend
BACKEND_RULES ==
    Text(<<
    <<>>,
    <<"6", ".", " ", "B", "A", "C", "K", "E", "N", "D", " ", EM_DASH, " ", "P", "R", "O", "D", "U", "C", "T", "I", "O", "N", " ", "R", "U", "L", "E", "S", " ", "(", "R", "e", "n", "d", "e", "r", "-", "d", "e", "p", "l", "o", "y", "a", "b", "l", "e", ")", ":">>,
    <<" ", " ", " ", "a", ".", " ", "r", "e", "q", "u", "i", "r", "e", "(", "'", "d", "o", "t", "e", "n", "v", "'", ")", ".", "c", "o", "n", "f", "i", "g", "(", ")", " ", "M", "U", "S", "T", " ", "b", "e", " ", "t", "h", "e", " ", "f", "i", "r", "s", "t", " ", "l", "i", "n", "e", " ", "o", "f", " ", "b", "a", "c", "k", "e", "n", "d", "/", "s", "e", "r", "v", "e", "r", ".", "j", "s", ".">>,
    <<" ", " ", " ", "b", ".", " ", "P", "o", "r", "t", ":", " ", "c", "o", "n", "s", "t", " ", "P", "O", "R", "T", " ", "=", " ", "p", "r", "o", "c", "e", "s", "s", ".", "e", "n", "v", ".", "P", "O", "R", "T", " ", "|", "|", " ", "5", "0", "0", "0", ";">>,
    <<" ", " ", " ", "c", ".", " ", "M", "o", "n", "g", "o", "D", "B", ":", " ", "m", "o", "n", "g", "o", "o", "s", "e", ".", "c", "o", "n", "n", "e", "c", "t", "(", "p", "r", "o", "c", "e", "s", "s", ".", "e", "n", "v", ".", "M", "O", "N", "G", "O", "_", "U", "R", "I", ")", " ", EM_DASH, " ", "N", "E", "V", "E", "R", " ", "m", "o", "n", "g", "o", "d", "b", ":", "/", "/", "1", "2", "7", ".", "0", ".", "0", ".", "1", " ", "o", "r", " ", "a", "n", "y", " ", "h", "a", "r", "d", "c", "o", "d", "e", "d", " ", "U", "R", "I", ".">>,
    <<" ", " ", " ", "d", ".", " ", "S", "e", "r", "v", "e", " ", "f", "r", "o", "n", "t", "e", "n", "d", ":", " ", "a", "p", "p", ".", "u", "s", "e", "(", "e", "x", "p", "r", "e", "s", "s", ".", "s", "t", "a", "t", "i", "c", "(", "'", "p", "u", "b", "l", "i", "c", "'", ")", ")", ";">>,
    <<" ", " ", " ", "e", ".", " ", "C", "O", "R", "S", ":", " ", "a", "l", "l", "o", "w", " ", "a", "l", "l", " ", "o", "r", "i", "g", "i", "n", "s", " ", "(", "s", "e", "e", " ", "s", "e", "r", "v", "e", "r", ".", "j", "s", " ", "i", "n", "s", "t", "r", "u", "c", "t", "i", "o", "n", "s", ")", ".">>,
    <<" ", " ", " ", "f", ".", " ", "D", "e", "p", "l", "o", "y", " ", "c", "o", "m", "m", "a", "n", "d", "s", " ", "f", "o", "r", " ", "R", "e", "n", "d", "e", "r", ":">>,
    <<" ", " ", " ", " ", " ", " ", "-", " ", "B", "u", "i", "l", "d", " ", "c", "o", "m", "m", "a", "n", "d", ":", " ", "n", "p", "m", " ", "i", "n", "s", "t", "a", "l", "l">>,
    <<" ", " ", " ", " ", " ", " ", "-", " ", "S", "t", "a", "r", "t", " ", "c", "o", "m", "m", "a", "n", "d", ":", " ", "n", "p", "m", " ", "s", "t", "a", "r", "t", " ", " ", " ", "(", "w", "h", "i", "c", "h", " ", "r", "u", "n", "s", ":", " ", "n", "o", "d", "e", " ", "b", "a", "c", "k", "e", "n", "d", "/", "s", "e", "r", "v", "e", "r", ".", "j", "s", ")">>,
    <<" ", " ", " ", "g", ".", " ", "D", "o", " ", "N", "O", "T", " ", "u", "s", "e", " ", "n", "o", "d", "e", "m", "o", "n", " ", "a", "n", "y", "w", "h", "e", "r", "e", ".">>,
    <<" ", " ", " ", "h", ".", " ", "N", "e", "v", "e", "r", " ", "c", "r", "e", "a", "t", "e", " ", "a", " ", "r", "e", "a", "l", " ", ".", "e", "n", "v", " ", "f", "i", "l", "e", " ", EM_DASH, " ", "o", "n", "l", "y", " ", ".", "e", "n", "v", ".", "e", "x", "a", "m", "p", "l", "e", ".">>,
    <<>>,
    <<"7", ".", " ", "A", "P", "I", " ", "E", "N", "D", "P", "O", "I", "N", "T", "S", ":">>,
    <<" ", " ", " ", "P", "O", "S", "T", " ", "/", "a", "p", "i", "/", "a", "u", "t", "h", "/", "s", "i", "g", "n", "u", "p", " ", " ", EM_DASH, " ", "r", "e", "g", "i", "s", "t", "e", "r", ",", " ", "r", "e", "t", "u", "r", "n", " ", "J", "W", "T">>,
    <<" ", " ", " ", "P", "O", "S", "T", " ", "/", "a", "p", "i", "/", "a", "u", "t", "h", "/", "l", "o", "g", "i", "n", " ", " ", " ", EM_DASH, " ", "l", "o", "g", "i", "n", ",", " ", "r", "e", "t", "u", "r", "n", " ", "J", "W", "T">>,
    <<" ", " ", " ", "G", "E", "T", " ", " ", "/", "a", "p", "i", "/", "a", "u", "t", "h", "/", "m", "e", " ", " ", " ", " ", " ", " ", EM_DASH, " ", "r", "e", "t", "u", "r", "n", " ", "c", "u", "r", "r", "e", "n", "t", " ", "u", "s", "e", "r", " ", "(", "p", "r", "o", "t", "e", "c", "t", "e", "d", ")">>,
    <<" ", " ", " ", "P", "U", "T", " ", " ", "/", "a", "p", "i", "/", "u", "s", "e", "r", "s", "/", ":", "i", "d", " ", " ", " ", " ", EM_DASH, " ", "u", "p", "d", "a", "t", "e", " ", "u", "s", "e", "r", " ", "(", "p", "r", "o", "t", "e", "c", "t", "e", "d", ")">>,
    <<>>,
    <<" ", " ", " ", "A", "l", "l", " ", "r", "e", "s", "p", "o", "n", "s", "e", "s", ":", " ", "{", " ", "\"", "s", "u", "c", "c", "e", "s", "s", "\"", ":", " ", "t", "r", "u", "e", "/", "f", "a", "l", "s", "e", ",", " ", "\"", "d", "a", "t", "a", "\"", ":", " ", "{", "}", ",", " ", "\"", "m", "e", "s", "s", "a", "g", "e", "\"", ":", " ", "\"", "\"", " ", "}">>,
    <<>>,
    <<"8", ".", " ", "F", "R", "O", "N", "T", "E", "N", "D", " ", "A", "P", "I", " ", "C", "A", "L", "L", "S", ":">>,
    <<" ", " ", " ", "A", "l", "l", " ", "f", "e", "t", "c", "h", "(", ")", " ", "c", "a", "l", "l", "s", " ", "M", "U", "S", "T", " ", "u", "s", "e", ":">>,
    <<" ", " ", " ", " ", " ", "c", "o", "n", "s", "t", " ", "A", "P", "I", "_", "B", "A", "S", "E", " ", "=", " ", "w", "i", "n", "d", "o", "w", ".", "l", "o", "c", "a", "t", "i", "o", "n", ".", "o", "r", "i", "g", "i", "n", " ", "+", " ", "'", "/", "a", "p", "i", "'", ";">>,
    <<" ", " ", " ", "T", "h", "i", "s", " ", "e", "n", "s", "u", "r", "e", "s", " ", "t", "h", "e", " ", "s", "a", "m", "e", " ", "c", "o", "d", "e", " ", "w", "o", "r", "k", "s", " ", "l", "o", "c", "a", "l", "l", "y", " ", "(", "h", "t", "t", "p", ":", "/", "/", "l", "o", "c", "a", "l", "h", "o", "s", "t", ":", "5", "0", "0", "0", ")", " ", "a", "n", "d", " ", "o", "n", " ", "R", "e", "n", "d", "e", "r", " ", "(", "h", "t", "t", "p", "s", ":", "/", "/", "y", "o", "u", "r", "a", "p", "p", ".", "o", "n", "r", "e", "n", "d", "e", "r", ".", "c", "o", "m", ")", " ", "w", "i", "t", "h", "o", "u", "t", " ", "a", "n", "y", " ", "c", "h", "a", "n", "g", "e", "s", ".">> >>) \o <<NL>>

\* prompt += ... if needs_database
DATABASE_RULES ==
    Text(<<
    <<>>,
    <<"9", ".", " ", "D", "A", "T", "A", "B", "A", "S", "E", " ", EM_DASH, " ", "M", "o", "n", "g", "o", "D", "B", " ", "A", "t", "l", "a", "s", ":">>,
    <<" ", " ", " ", "-", " ", "U", "s", "e", " ", "M", "o", "n", "g", "o", "o", "s", "e", " ", "w", "i", "t", "h", " ", "p", "r", "o", "c", "e", "s", "s", ".", "e", "n", "v", ".", "M", "O", "N", "G", "O", "_", "U", "R", "I", " ", "(", "A", "t", "l", "a", "s", " ", "c", "o", "n", "n", "e", "c", "t", "i", "o", "n", " ", "s", "t", "r", "i", "n", "g", ")", ".">>,
    <<" ", " ", " ", "-", " ", "N", "E", "V", "E", "R", " ", "u", "s", "e", " ", "m", "o", "n", "g", "o", "d", "b", ":", "/", "/", "1", "2", "7", ".", "0", ".", "0", ".", "1", " ", "o", "r", " ", "a", "n", "y", " ", "l", "o", "c", "a", "l", " ", "U", "R", "I", ".">>,
    <<" ", " ", " ", "-", " ", "D", "a", "t", "a", "b", "a", "s", "e", " ", "n", "a", "m", "e", " ", "s", "h", "o", "u", "l", "d", " ", "b", "e", " ", "d", "e", "r", "i", "v", "e", "d", " ", "f", "r", "o", "m", " ", "t", "h", "e", " ", "p", "r", "o", "j", "e", "c", "t", " ", "n", "a", "m", "e", " ", "(", "e", ".", "g", ".", " ", "m", "y", "a", "p", "p", "-", "d", "b", ")", ".">>,
    <<" ", " ", " ", "-", " ", "S", "c", "h", "e", "m", "a", "s", " ", "m", "u", "s", "t", " ", "i", "n", "c", "l", "u", "d", "e", ":", " ", "r", "e", "q", "u", "i", "r", "e", "d", " ", "f", "i", "e", "l", "d", "s", ",", " ", "v", "a", "l", "i", "d", "a", "t", "i", "o", "n", ",", " ", "t", "i", "m", "e", "s", "t", "a", "m", "p", "s", ":", " ", "t", "r", "u", "e", ".">>,
    <<" ", " ", " ", "-", " ", "A", "d", "d", " ", "i", "n", "d", "e", "x", "e", "s", " ", "o", "n", " ", "f", "r", "e", "q", "u", "e", "n", "t", "l", "y", " ", "q", "u", "e", "r", "i", "e", "d", " ", "f", "i", "e", "l", "d", "s", " ", "(", "e", ".", "g", ".", " ", "e", "m", "a", "i", "l", ")", ".">>,
    <<" ", " ", " ", "-", " ", "D", "o", " ", "N", "O", "T", " ", "a", "s", "s", "u", "m", "e", " ", "t", "h", "e", " ", "d", "a", "t", "a", "b", "a", "s", "e", " ", "o", "r", " ", "c", "o", "l", "l", "e", "c", "t", "i", "o", "n", "s", " ", "a", "l", "r", "e", "a", "d", "y", " ", "e", "x", "i", "s", "t", ".">> >>) \o <<NL>>

\* prompt += ... (always)
FORMAT_RULES ==
    Text(<<
    <<>>,
    <<"9", ".", " ", "I", "M", "P", "O", "R", "T", "A", "N", "T", " ", "F", "O", "R", "M", "A", "T", ":">>,
    <<" ", " ", " ", "-", " ", "S", "t", "a", "r", "t", " ", "E", "A", "C", "H", " ", "f", "i", "l", "e", " ", "w", "i", "t", "h", ":", " ", "F", "I", "L", "E", ":", " ", "p", "a", "t", "h", "/", "t", "o", "/", "f", "i", "l", "e", "n", "a", "m", "e">>,
    <<" ", " ", " ", "-", " ", "W", "r", "a", "p", " ", "c", "o", "d", "e", " ", "i", "n", " ", "t", "r", "i", "p", "l", "e", " ", "b", "a", "c", "k", "t", "i", "c", "k", "s", " ", "w", "i", "t", "h", " ", "l", "a", "n", "g", "u", "a", "g", "e">>,
    <<" ", " ", " ", "-", " ", "N", "o", " ", "e", "x", "p", "l", "a", "n", "a", "t", "i", "o", "n", "s", " ", "o", "u", "t", "s", "i", "d", "e", " ", "c", "o", "d", "e", " ", "b", "l", "o", "c", "k", "s">>,
    <<" ", " ", " ", "-", " ", "M", "a", "k", "e", " ", "i", "t", " ", "p", "r", "o", "d", "u", "c", "t", "i", "o", "n", "-", "r", "e", "a", "d", "y">>,
    <<" ", " ", " ", "-", " ", "I", "n", "c", "l", "u", "d", "e", " ", "a", "l", "l", " ", "n", "e", "c", "e", "s", "s", "a", "r", "y", " ", "f", "i", "l", "e", "s">>,
    <<>>,
    <<"1", "0", ".", " ", "A", "U", "T", "H", "E", "N", "T", "I", "C", "A", "T", "I", "O", "N", " ", "(", "i", "f", " ", "a", "p", "p", "l", "i", "c", "a", "b", "l", "e", ")", ":">>,
    <<" ", " ", " ", "-", " ", "J", "W", "T", "-", "b", "a", "s", "e", "d", " ", "a", "u", "t", "h", "e", "n", "t", "i", "c", "a", "t", "i", "o", "n">>,
    <<" ", " ", " ", "-", " ", "P", "a", "s", "s", "w", "o", "r", "d", " ", "h", "a", "s", "h", "i", "n", "g", " ", "w", "i", "t", "h", " ", "b", "c", "r", "y", "p", "t">>,
    <<" ", " ", " ", "-", " ", "P", "r", "o", "t", "e", "c", "t", "e", "d", " ", "r", "o", "u", "t", "e", "s", " ", "m", "i", "d", "d", "l", "e", "w", "a", "r", "e">>,
    <<" ", " ", " ", "-", " ", "T", "o", "k", "e", "n", " ", "s", "t", "o", "r", "e", "d", " ", "i", "n", " ", "l", "o", "c", "a", "l", "S", "t", "o", "r", "a", "g", "e">>,
    <<" ", " ", " ", "-", " ", "A", "u", "t", "o", "-", "r", "e", "d", "i", "r", "e", "c", "t", " ", "i", "f", " ", "n", "o", "t", " ", "a", "u", "t", "h", "e", "n", "t", "i", "c", "a", "t", "e", "d">>,
    <<>>,
    <<"R", "E", "M", "E", "M", "B", "E", "R", ":">>,
    <<"-", " ", "E", "v", "e", "r", "y", " ", "f", "i", "l", "e", " ", "M", "U", "S", "T", " ", "s", "t", "a", "r", "t", " ", "w", "i", "t", "h", " ", "\"", "F", "I", "L", "E", ":", " ", "f", "i", "l", "e", "n", "a", "m", "e", "\"">>,
    <<"-", " ", "U", "s", "e", " ", "p", "r", "o", "v", "i", "d", "e", "d", " ", "b", "r", "a", "n", "d", "i", "n", "g", " ", "c", "o", "l", "o", "r", "s">>,
    <<"-", " ", "M", "a", "k", "e", " ", "i", "t", " ", "l", "o", "o", "k", " ", "p", "r", "o", "f", "e", "s", "s", "i", "o", "n", "a", "l">>,
    <<"-", " ", "A", "d", "d", " ", "s", "m", "o", "o", "t", "h", " ", "a", "n", "i", "m", "a", "t", "i", "o", "n", "s">>,
    <<"-", " ", "I", "n", "c", "l", "u", "d", "e", " ", "a", "l", "l", " ", "r", "e", "q", "u", "e", "s", "t", "e", "d", " ", "f", "e", "a", "t", "u", "r", "e", "s">> >>) \o <<NL>>

\* The prompt around a finished files_section: the f-string and the three appends.
\* A contact block as get_vanilla_prompt_enhanced writes it, for the address only.
ContactSection(c) ==
    IF "address" \in DOMAIN c /\ c["address"] # <<>>
    THEN <<NL, NL, "C", "O", "N", "T", "A", "C", "T", " ", "I", "N", "F", "O", "R", "M", "A", "T", "I", "O", "N", " ", "-", " ", "I", "N", "C", "L", "U", "D", "E", " ", "I", "N", " ", "F", "O", "O", "T", "E", "R", "/", "C", "O", "N", "T", "A", "C", "T", " ", "S", "E", "C", "T", "I", "O", "N", ":", NL, "-", " ", "A", "d", "d", "r", "e", "s", "s", ":", " ">> \o c["address"]
    ELSE <<>>

\* A variant of the prompt that carries the contact block after the social block.
PromptAround_with_contact(d, si, b, sm, c, fs) ==
    <<NL, "C", "r", "e", "a", "t", "e", " ", "a", " ", "c", "o", "m", "p", "l", "e", "t", "e", " ">> \o Replace(TypeName(si.type), <<"_">>, <<" ">>) \o <<" ", "b", "a", "s", "e", "d", " ", "o", "n", ":", " ">> \o d \o <<NL>>
    \o <<NL, "P", "R", "O", "J", "E", "C", "T", " ", "T", "Y", "P", "E", ":", " ">> \o StructureDescription(si.type) \o <<NL>>
    \o <<"T", "O", "T", "A", "L", " ", "F", "I", "L", "E", "S", ":", " ">> \o Str(Len(si.files)) \o <<NL>>
    \o <<NL>> \o BrandingSection(b) \o <<NL>> \o SocialSection(sm) \o ContactSection(c) \o <<NL>>
    \o NavigationSection(si.type, si.files) \o <<NL>>
    \o <<NL>> \o fs \o <<NL>>
    \o CRITICAL_REQUIREMENTS
    \o (IF si.needs_backend THEN BACKEND_RULES ELSE <<>>)
    \o (IF si.needs_database THEN DATABASE_RULES ELSE <<>>)
    \o FORMAT_RULES

\* The prompt around the files section; the contact argument c is not read.
PromptAround(d, si, b, sm, c, fs) ==
    <<NL, "C", "r", "e", "a", "t", "e", " ", "a", " ", "c", "o", "m", "p", "l", "e", "t", "e", " ">> \o Replace(TypeName(si.type), <<"_">>, <<" ">>) \o <<" ", "b", "a", "s", "e", "d", " ", "o", "n", ":", " ">> \o d \o <<NL>>
    \o <<NL, "P", "R", "O", "J", "E", "C", "T", " ", "T", "Y", "P", "E", ":", " ">> \o StructureDescription(si.type) \o <<NL>>
    \o <<"T", "O", "T", "A", "L", " ", "F", "I", "L", "E", "S", ":", " ">> \o Str(Len(si.files)) \o <<NL>>
    \o <<NL>> \o BrandingSection(b) \o <<NL>> \o SocialSection(sm) \o <<NL>>
    \o NavigationSection(si.type, si.files) \o <<NL>>
    \o <<NL>> \o fs \o <<NL>>
    \o CRITICAL_REQUIREMENTS
    \o (IF si.needs_backend THEN BACKEND_RULES ELSE <<>>)
    \o (IF si.needs_database THEN DATABASE_RULES ELSE <<>>)
    \o FORMAT_RULES

\* files_section after the loop has handled the first n files
RECURSIVE FilesSection(_, _)
FilesSection(files_list, n) ==
    IF n = 0 THEN FilesSectionStart(files_list)
    ELSE FilesSection(files_list, n - 1)
         \o FileSection(files_list[n], build_file_instructions(files_list[n]))

\* The whole function.
get_structured_prompt(d, si, b, sm, c) ==
    PromptAround(d, si, b, sm, c, FilesSection(si.files, Len(si.files)))

(***************************************************************************)
(* app.py: get_vanilla_prompt.                                             *)
(***************************************************************************)
\* for i, img in enumerate(images, 1): the lines of images i, i+1, ...
RECURSIVE ImageLines(_, _)
ImageLines(images, i) ==
    IF i > Len(images) THEN <<>>
    ELSE Str(i) \o <<".", " ">> \o images[i].url \o <<" ", "(", "k", "e", "y", "w", "o", "r", "d", ":", " ">> \o images[i].keyword \o <<")", NL>>
         \o ImageLines(images, i + 1)

\* image_list
ImageList(images) ==
    IF images # <<>>
    THEN <<NL, NL, "A", "V", "A", "I", "L", "A", "B", "L", "E", " ", "R", "E", "A", "L", " ", "I", "M", "A", "G", "E", "S", " ", "-", " ", "U", "S", "E", " ", "T", "H", "E", "S", "E", " ", "E", "X", "A", "C", "T", " ", "U", "R", "L", "S", ":", NL>> \o ImageLines(images, 1)
    ELSE <<>>

\* The f-string after its first line, up to the closing fence of script.js.
VANILLA_FILES ==
    Text(<<
    <<>>,
    <<"Y", "o", "u", " ", "m", "u", "s", "t", " ", "o", "u", "t", "p", "u", "t", " ", "e", "x", "a", "c", "t", "l", "y", " ", "3", " ", "f", "i", "l", "e", "s", " ", "i", "n", " ", "t", "h", "i", "s", " ", "f", "o", "r", "m", "a", "t", ":">>,
    <<>>,
    <<"F", "I", "L", "E", ":", " ", "i", "n", "d", "e", "x", ".", "h", "t", "m", "l">>,
    <<BACKTICK, BACKTICK, BACKTICK, "h", "t", "m", "l">>,
    <<"<", "!", "D", "O", "C", "T", "Y", "P", "E", " ", "h", "t", "m", "l", ">">>,
    <<"<", "h", "t", "m", "l", " ", "l", "a", "n", "g", "=", "\"", "e", "n", "\"", ">">>,
    <<"<", "h", "e", "a", "d", ">">>,
    <<" ", " ", " ", " ", "<", "m", "e", "t", "a", " ", "c", "h", "a", "r", "s", "e", "t", "=", "\"", "U", "T", "F", "-", "8", "\"", ">">>,
    <<" ", " ", " ", " ", "<", "m", "e", "t", "a", " ", "n", "a", "m", "e", "=", "\"", "v", "i", "e", "w", "p", "o", "r", "t", "\"", " ", "c", "o", "n", "t", "e", "n", "t", "=", "\"", "w", "i", "d", "t", "h", "=", "d", "e", "v", "i", "c", "e", "-", "w", "i", "d", "t", "h", ",", " ", "i", "n", "i", "t", "i", "a", "l", "-", "s", "c", "a", "l", "e", "=", "1", ".", "0", "\"", ">">>,
    <<" ", " ", " ", " ", "<", "t", "i", "t", "l", "e", ">", "W", "e", "b", "s", "i", "t", "e", " ", "T", "i", "t", "l", "e", "<", "/", "t", "i", "t", "l", "e", ">">>,
    <<" ", " ", " ", " ", "<", "l", "i", "n", "k", " ", "r", "e", "l", "=", "\"", "s", "t", "y", "l", "e", "s", "h", "e", "e", "t", "\"", " ", "h", "r", "e", "f", "=", "\"", "s", "t", "y", "l", "e", ".", "c", "s", "s", "\"", ">">>,
    <<"<", "/", "h", "e", "a", "d", ">">>,
    <<"<", "b", "o", "d", "y", ">">>,
    <<" ", " ", " ", " ", "<", "!", "-", "-", " ", "Y", "o", "u", "r", " ", "H", "T", "M", "L", " ", "h", "e", "r", "e", " ", "-", "-", ">">>,
    <<" ", " ", " ", " ", "<", "s", "c", "r", "i", "p", "t", " ", "s", "r", "c", "=", "\"", "s", "c", "r", "i", "p", "t", ".", "j", "s", "\"", ">", "<", "/", "s", "c", "r", "i", "p", "t", ">">>,
    <<"<", "/", "b", "o", "d", "y", ">">>,
    <<"<", "/", "h", "t", "m", "l", ">">>,
    <<BACKTICK, BACKTICK, BACKTICK>>,
    <<>>,
    <<"F", "I", "L", "E", ":", " ", "s", "t", "y", "l", "e", ".", "c", "s", "s">>,
    <<BACKTICK, BACKTICK, BACKTICK, "c", "s", "s">>,
    <<"b", "o", "d", "y", " ", "{">>,
    <<" ", " ", " ", " ", "m", "a", "r", "g", "i", "n", ":", " ", "0", ";">>,
    <<" ", " ", " ", " ", "p", "a", "d", "d", "i", "n", "g", ":", " ", "0", ";">>,
    <<" ", " ", " ", " ", "f", "o", "n", "t", "-", "f", "a", "m", "i", "l", "y", ":", " ", "A", "r", "i", "a", "l", ",", " ", "s", "a", "n", "s", "-", "s", "e", "r", "i", "f", ";">>,
    <<"}">>,
    <<BACKTICK, BACKTICK, BACKTICK>>,
    <<>>,
    <<"F", "I", "L", "E", ":", " ", "s", "c", "r", "i", "p", "t", ".", "j", "s">>,
    <<BACKTICK, BACKTICK, BACKTICK, "j", "a", "v", "a", "s", "c", "r", "i", "p", "t">>,
    <<"c", "o", "n", "s", "o", "l", "e", ".", "l", "o", "g", "(", "'", "W", "e", "b", "s", "i", "t", "e", " ", "l", "o", "a", "d", "e", "d", "'", ")", ";">>,
    <<BACKTICK, BACKTICK, BACKTICK>> >>) \o <<NL>>

\* The string that follows image_list.
VANILLA_REQUIREMENTS ==
    Text(<<
    <<>>,
    <<>>,
    <<"C", "R", "I", "T", "I", "C", "A", "L", " ", "I", "M", "A", "G", "E", " ", "R", "E", "Q", "U", "I", "R", "E", "M", "E", "N", "T", "S", ":">>,
    <<>>,
    <<"1", ".", " ", "U", "S", "E", " ", "T", "H", "E", " ", "E", "X", "A", "C", "T", " ", "I", "M", "A", "G", "E", " ", "U", "R", "L", "S", " ", "P", "R", "O", "V", "I", "D", "E", "D", " ", "A", "B", "O", "V", "E">>,
    <<" ", " ", " ", "-", " ", "C", "o", "p", "y", " ", "t", "h", "e", " ", "f", "u", "l", "l", " ", "U", "R", "L", " ", "e", "x", "a", "c", "t", "l", "y", " ", "a", "s", " ", "s", "h", "o", "w", "n">>,
    <<" ", " ", " ", "-", " ", "T", "h", "e", "s", "e", " ", "a", "r", "e", " ", "r", "e", "a", "l", ",", " ", "h", "i", "g", "h", "-", "q", "u", "a", "l", "i", "t", "y", " ", "p", "h", "o", "t", "o", "s", " ", "f", "r", "o", "m", " ", "P", "e", "x", "e", "l", "s">>,
    <<" ", " ", " ", "-", " ", "T", "h", "e", "y", " ", "m", "a", "t", "c", "h", " ", "t", "h", "e", " ", "w", "e", "b", "s", "i", "t", "e", " ", "t", "o", "p", "i", "c", " ", "p", "e", "r", "f", "e", "c", "t", "l", "y">>,
    <<>>,
    <<"2", ".", " ", "H", "O", "W", " ", "T", "O", " ", "U", "S", "E", " ", "I", "M", "A", "G", "E", "S", ":">>,
    <<" ", " ", " ", "-", " ", "F", "o", "r", " ", "h", "e", "r", "o", " ", "s", "e", "c", "t", "i", "o", "n", ":", " ", "U", "s", "e", " ", "i", "m", "a", "g", "e", " ", "1", " ", "o", "r", " ", "2">>,
    <<" ", " ", " ", "-", " ", "F", "o", "r", " ", "g", "a", "l", "l", "e", "r", "y", "/", "c", "a", "r", "d", "s", ":", " ", "U", "s", "e", " ", "d", "i", "f", "f", "e", "r", "e", "n", "t", " ", "i", "m", "a", "g", "e", "s", " ", "(", "3", ",", " ", "4", ",", " ", "5", ",", " ", "e", "t", "c", ".", ")">>,
    <<" ", " ", " ", "-", " ", "E", "x", "a", "m", "p", "l", "e", ":", " ", "<", "i", "m", "g", " ", "s", "r", "c", "=", "\"", "P", "A", "S", "T", "E", "_", "E", "X", "A", "C", "T", "_", "U", "R", "L", "_", "H", "E", "R", "E", "\"", " ", "a", "l", "t", "=", "\"", "D", "e", "s", "c", "r", "i", "p", "t", "i", "o", "n", "\"", ">">>,
    <<" ", " ", " ">>,
    <<"3", ".", " ", "I", "M", "A", "G", "E", " ", "S", "T", "Y", "L", "I", "N", "G", ":">>,
    <<" ", " ", " ", "-", " ", "M", "a", "k", "e", " ", "i", "m", "a", "g", "e", "s", " ", "r", "e", "s", "p", "o", "n", "s", "i", "v", "e", ":", " ", "w", "i", "d", "t", "h", ":", " ", "1", "0", "0", "%", ";", " ", "h", "e", "i", "g", "h", "t", ":", " ", "a", "u", "t", "o", ";">>,
    <<" ", " ", " ", "-", " ", "A", "d", "d", " ", "o", "b", "j", "e", "c", "t", "-", "f", "i", "t", ":", " ", "c", "o", "v", "e", "r", ";", " ", "f", "o", "r", " ", "h", "e", "r", "o", " ", "i", "m", "a", "g", "e", "s">>,
    <<" ", " ", " ", "-", " ", "U", "s", "e", " ", "b", "o", "r", "d", "e", "r", "-", "r", "a", "d", "i", "u", "s", " ", "f", "o", "r", " ", "m", "o", "d", "e", "r", "n", " ", "l", "o", "o", "k">>,
    <<" ", " ", " ", "-", " ", "A", "d", "d", " ", "b", "o", "x", "-", "s", "h", "a", "d", "o", "w", " ", "f", "o", "r", " ", "d", "e", "p", "t", "h">>,
    <<>>,
    <<"4", ".", " ", "E", "X", "A", "M", "P", "L", "E", " ", "U", "S", "A", "G", "E", ":">>,
    <<BACKTICK, BACKTICK, BACKTICK, "h", "t", "m", "l">>,
    <<" ", " ", " ", "<", "d", "i", "v", " ", "c", "l", "a", "s", "s", "=", "\"", "h", "e", "r", "o", "\"", ">">>,
    <<" ", " ", " ", " ", " ", "<", "i", "m", "g", " ", "s", "r", "c", "=", "\"", "E", "X", "A", "C", "T", "_", "P", "E", "X", "E", "L", "S", "_", "U", "R", "L", "_", "F", "R", "O", "M", "_", "A", "B", "O", "V", "E", "\"", " ", "a", "l", "t", "=", "\"", "H", "e", "r", "o", " ", "I", "m", "a", "g", "e", "\"", ">">>,
    <<" ", " ", " ", " ", " ", "<", "d", "i", "v", " ", "c", "l", "a", "s", "s", "=", "\"", "h", "e", "r", "o", "-", "c", "o", "n", "t", "e", "n", "t", "\"", ">">>,
    <<" ", " ", " ", " ", " ", " ", " ", "<", "h", "1", ">", "W", "e", "l", "c", "o", "m", "e", "<", "/", "h", "1", ">">>,
    <<" ", " ", " ", " ", " ", "<", "/", "d", "i", "v", ">">>,
    <<" ", " ", " ", "<", "/", "d", "i", "v", ">">>,
    <<BACKTICK, BACKTICK, BACKTICK>>,
    <<>>,
    <<"5", ".", " ", "I", "F", " ", "Y", "O", "U", " ", "N", "E", "E", "D", " ", "M", "O", "R", "E", " ", "I", "M", "A", "G", "E", "S", ":">>,
    <<" ", " ", " ", "-", " ", "U", "s", "e", " ", "C", "S", "S", " ", "g", "r", "a", "d", "i", "e", "n", "t", "s", " ", "a", "s", " ", "b", "a", "c", "k", "g", "r", "o", "u", "n", "d", "s">>,
    <<" ", " ", " ", "-", " ", "A", "d", "d", " ", "e", "m", "o", "j", "i", " ", "i", "c", "o", "n", "s", " ", "f", "o", "r", " ", "d", "e", "c", "o", "r", "a", "t", "i", "o", "n">>,
    <<" ", " ", " ", "-", " ", "B", "u", "t", " ", "p", "r", "i", "o", "r", "i", "t", "i", "z", "e", " ", "u", "s", "i", "n", "g", " ", "t", "h", "e", " ", "p", "r", "o", "v", "i", "d", "e", "d", " ", "P", "e", "x", "e", "l", "s", " ", "i", "m", "a", "g", "e", "s">>,
    <<>>,
    <<"A", "B", "S", "O", "L", "U", "T", "E", "L", "Y", " ", "R", "E", "Q", "U", "I", "R", "E", "D", ":">>,
    <<"-", " ", "U", "s", "e", " ", "t", "h", "e", " ", "E", "X", "A", "C", "T", " ", "U", "R", "L", "s", " ", "p", "r", "o", "v", "i", "d", "e", "d", " ", "a", "b", "o", "v", "e">>,
    <<"-", " ", "D", "o", " ", "N", "O", "T", " ", "m", "o", "d", "i", "f", "y", " ", "o", "r", " ", "s", "h", "o", "r", "t", "e", "n", " ", "t", "h", "e", " ", "U", "R", "L", "s">>,
    <<"-", " ", "D", "o", " ", "N", "O", "T", " ", "u", "s", "e", " ", "p", "l", "a", "c", "e", "h", "o", "l", "d", "e", "r", ".", "c", "o", "m", " ", "o", "r", " ", "a", "n", "y", " ", "o", "t", "h", "e", "r", " ", "s", "e", "r", "v", "i", "c", "e">>,
    <<"-", " ", "E", "v", "e", "r", "y", " ", "<", "i", "m", "g", ">", " ", "t", "a", "g", " ", "m", "u", "s", "t", " ", "u", "s", "e", " ", "a", " ", "U", "R", "L", " ", "f", "r", "o", "m", " ", "t", "h", "e", " ", "l", "i", "s", "t", " ", "a", "b", "o", "v", "e">>,
    <<>>,
    <<"D", "E", "S", "I", "G", "N", " ", "R", "E", "Q", "U", "I", "R", "E", "M", "E", "N", "T", "S", ":">>,
    <<"-", " ", "S", "t", "a", "r", "t", " ", "e", "a", "c", "h", " ", "f", "i", "l", "e", " ", "w", "i", "t", "h", " ", "\"", "F", "I", "L", "E", ":", " ", "f", "i", "l", "e", "n", "a", "m", "e", "\"">>,
    <<"-", " ", "W", "r", "a", "p", " ", "c", "o", "d", "e", " ", "i", "n", " ", "t", "r", "i", "p", "l", "e", " ", "b", "a", "c", "k", "t", "i", "c", "k", "s">>,
    <<"-", " ", "M", "a", "k", "e", " ", "i", "t", " ", "f", "u", "l", "l", "y", " ", "r", "e", "s", "p", "o", "n", "s", "i", "v", "e", " ", "(", "m", "o", "b", "i", "l", "e", "-", "f", "r", "i", "e", "n", "d", "l", "y", ")">>,
    <<"-", " ", "M", "o", "d", "e", "r", "n", ",", " ", "p", "r", "o", "f", "e", "s", "s", "i", "o", "n", "a", "l", " ", "d", "e", "s", "i", "g", "n">>,
    <<"-", " ", "S", "m", "o", "o", "t", "h", " ", "a", "n", "i", "m", "a", "t", "i", "o", "n", "s", " ", "a", "n", "d", " ", "t", "r", "a", "n", "s", "i", "t", "i", "o", "n", "s">>,
    <<"-", " ", "B", "e", "a", "u", "t", "i", "f", "u", "l", " ", "t", "y", "p", "o", "g", "r", "a", "p", "h", "y">> >>) \o <<NL>>

\* The prompt for the images the image search returned.
get_vanilla_prompt(d, images) ==
    <<NL, "C", "r", "e", "a", "t", "e", " ", "a", " ", "c", "o", "m", "p", "l", "e", "t", "e", ",", " ", "p", "r", "o", "f", "e", "s", "s", "i", "o", "n", "a", "l", " ", "w", "e", "b", "s", "i", "t", "e", " ", "b", "a", "s", "e", "d", " ", "o", "n", ":", " ">> \o d \o <<NL>>
    \o VANILLA_FILES \o ImageList(images) \o VANILLA_REQUIREMENTS

(***************************************************************************)
(* The composers run, then the parser applied to the prompt they return.   *)
(***************************************************************************)
\* files_section = f"You must generate exactly ..."
ComposeEnter ==
    /\ pc = "compose"
    /\ files_section' = FilesSectionStart(structure_info.files)
    /\ fpos' = 0
    /\ pc' = "files_loop"
    /\ UNCHANGED <<branding, filename, instructions, prompt>>
    /\ UNCHANGED <<parserVars, classifierVars, imageVars, requestVars, concurrentVars>>

\* for filename in files_list: one iteration.
ComposeFile ==
    /\ pc = "files_loop"
    /\ fpos < Len(structure_info.files)
    /\ filename' = structure_info.files[fpos + 1]
    /\ instructions' = build_file_instructions(filename')
    /\ files_section' = files_section \o FileSection(filename', instructions')
    /\ fpos' = fpos + 1
    /\ UNCHANGED <<branding, prompt, pc>>
    /\ UNCHANGED <<parserVars, classifierVars, imageVars, requestVars, concurrentVars>>

\* After the loop: the sections, the main prompt and its appended rules; return prompt.
ComposeReturn ==
    /\ pc = "files_loop"
    /\ fpos >= Len(structure_info.files)
    /\ prompt' = PromptAround(description, structure_info, branding, social_media, contact, files_section)
    /\ pc' = "composed"
    /\ UNCHANGED <<branding, filename, instructions, files_section, fpos>>
    /\ UNCHANGED <<parserVars, classifierVars, imageVars, requestVars, concurrentVars>>

\* What get_pexels_images(keywords, per_keyword=2) can return to get_vanilla_prompt:
\* nothing, or two records for the first keyword, or a record whose url (a value
\* of the image API's reply) holds a FILE: marker.
ImagesFor(kws) ==
    {<<>>,
     <<[url |-> <<"h", "t", "t", "p", "s", ":", "/", "/", "i", "m", "a", "g", "e", "s", ".", "p", "e", "x", "e", "l", "s", ".", "c", "o", "m", "/", "p", "h", "o", "t", "o", "s", "/", "1", "/", "a", ".", "j", "p", "e", "g">>, keyword |-> kws[1],
        photographer |-> <<"p", "1">>],
       [url |-> <<"h", "t", "t", "p", "s", ":", "/", "/", "i", "m", "a", "g", "e", "s", ".", "p", "e", "x", "e", "l", "s", ".", "c", "o", "m", "/", "p", "h", "o", "t", "o", "s", "/", "2", "/", "b", ".", "j", "p", "e", "g">>, keyword |-> kws[1],
        photographer |-> <<"p", "2">>]>>,
     <<[url |-> <<"h", "t", "t", "p", "s", ":", "/", "/", "x", ".", "i", "o", "/", "F", "I", "L", "E", ":", " ", "e", "x", "t", "r", "a", ".", "h", "t", "m", "l">>, keyword |-> kws[1], photographer |-> <<"p", "3">>]>>}

\* get_vanilla_prompt(description): keywords, images, image_list and the prompt.
VanillaPrompt ==
    /\ pc = "vanilla"
    /\ keywords' = extract_keywords_from_description(description)
    /\ image_urls' \in ImagesFor(keywords')
    /\ prompt' = get_vanilla_prompt(description, image_urls')
    /\ pc' = "composed"
    /\ UNCHANGED <<pexels_api_key, kpos, http_log, replies, ret>>
    /\ UNCHANGED <<branding, filename, instructions, files_section, fpos>>
    /\ UNCHANGED <<parserVars, classifierVars, requestVars, concurrentVars>>

\* parse_files_from_response(prompt)
ParsePrompt ==
    /\ pc = "composed"
    /\ text' = prompt
    /\ files' = parse_files_from_response(prompt)
    /\ pc' = "prompt_parsed"
    /\ UNCHANGED <<origin, lines, idx, current_file, in_code_block, code_content>>
    /\ UNCHANGED <<classifierVars, imageVars, requestVars, concurrentVars, composerVars>>

NextPrompt == ComposeEnter \/ ComposeFile \/ ComposeReturn \/ VanillaPrompt \/ ParsePrompt

(***************************************************************************)
(* Inputs of build_file_instructions: every path of the six manifests,     *)
(* and some paths outside them.                                            *)
(***************************************************************************)
Manifests == {LANDING_PAGE_FILES, MULTI_PAGE_FILES, PORTFOLIO_FILES, BLOG_FILES,
              WEBAPP_FILES, ECOMMERCE_FILES}

ManifestPaths == UNION {{m[i] : i \in DOMAIN m} : m \in Manifests}

OtherPaths == {
    <<"s", "e", "r", "v", "e", "r", ".", "j", "s">>,
    <<"r", "o", "u", "t", "e", "s", "/", "i", "n", "d", "e", "x", ".", "p", "y">>,
    <<"m", "o", "d", "e", "l", "s", "/", "u", "s", "e", "r", ".", "p", "y">>,
    <<"d", "b", "/", "m", "o", "d", "e", "l", "s", ".", "j", "s", "o", "n">>,
    <<"a", "p", "i", "/", "r", "o", "u", "t", "e", "s", ".", "m", "d">>,
    <<"M", "a", "k", "e", "f", "i", "l", "e">>,
    <<"n", "o", "t", "e", "s", ".", "t", "x", "t">>,
    <<"p", "r", "o", "f", "i", "l", "e", ".", "h", "t", "m", "l">>,
    <<"s", "e", "t", "t", "i", "n", "g", "s", ".", "h", "t", "m", "l">>,
    <<"p", "r", "i", "c", "i", "n", "g", ".", "h", "t", "m", "l">>,
    <<"a", "u", "t", "h", ".", "j", "s">>,
    <<"a", "p", "p", ".", "j", "s">>,
    <<"s", "c", "h", "e", "m", "a", ".", "s", "q", "l">>,
    <<"b", "a", "c", "k", "e", "n", "d", "/", "p", "a", "c", "k", "a", "g", "e", ".", "j", "s", "o", "n">>,
    <<"d", "o", "c", "s", "/", "R", "E", "A", "D", "M", "E", ".", "m", "d">>,
    <<"s", "r", "c", "/", "l", "o", "g", "i", "n", ".", "c", "s", "s">> }

InitInstructions ==
    /\ filename \in ManifestPaths \cup OtherPaths
    /\ branding = <<>>
    /\ instructions = NoInstructions
    /\ files_section = <<>>
    /\ fpos = 0
    /\ prompt = <<>>
    /\ ParserUnused
    /\ ClassifierUnused
    /\ ImagesUnused
    /\ RequestUnused
    /\ ThreadsUnused
    /\ pc = "instruct"

SpecInstructions == InitInstructions /\ [][NextInstructions]_vars

(***************************************************************************)
(* Inputs of the composers: the six catalog structures, descriptions with  *)
(* and without FILE: markers and fence lines, branding and social values.  *)
(***************************************************************************)
StructureTypes == {"landing_page", "multi_page", "portfolio", "blog", "web_application", "ecommerce"}

D_plain == <<"C", "o", "f", "f", "e", "e", " ", "s", "h", "o", "p">>
D_marker == <<"n", "o", "t", "e", "s", " ", "i", "n", " ", "F", "I", "L", "E", ":", " ", "t", "o", "d", "o">>
D_fence == <<"a", " ", "s", "i", "t", "e">> \o <<NL>> \o FENCE \o <<NL>> \o <<"b">>
D_marker_and_block == <<"F", "I", "L", "E", ":", " ", "e", "v", "i", "l">> \o <<NL>> \o FENCE \o <<NL>> \o <<"x">> \o <<NL>> \o FENCE

PromptDescriptions == {D_plain, D_marker, D_fence, D_marker_and_block}

SampleBrandings == {
    EmptyDict,
    [company_name |-> <<"A", "c", "m", "e", "-", "1", " ", "L", "t", "d">>, tagline |-> <<>>,
     primary_color |-> <<"#", "1", "1", "2", "2", "3", "3">>, secondary_color |-> <<"#", "4", "4", "5", "5", "6", "6">>],
    [company_name |-> D_marker_and_block, tagline |-> <<>>,
     primary_color |-> <<"#", "1", "1", "2", "2", "3", "3">>, secondary_color |-> <<"#", "4", "4", "5", "5", "6", "6">>] }

SampleSocials == {
    [k \in SOCIAL_MEDIA_KEYS |-> <<>>],
    [k \in SOCIAL_MEDIA_KEYS |->
        IF k = "instagram" THEN <<"a", "c", "m", "e">> ELSE IF k = "email" THEN <<"h", "i", "@", "a", "c", "m", "e", ".", "i", "o">> ELSE <<>>] }

SampleContacts == {
    [k \in CONTACT_KEYS |-> <<>>],
    [k \in CONTACT_KEYS |->
        IF k = "address" THEN <<"1", " ", "M", "a", "i", "n", " ", "S", "t">> ELSE IF k = "city" THEN <<"P", "a", "r", "i", "s">> ELSE <<>>] }

InitPrompt ==
    /\ description \in PromptDescriptions
    /\ \/ /\ pc = "compose"
          /\ structure_info \in {StructureOf(t) : t \in StructureTypes}
          /\ branding \in SampleBrandings
          /\ social_media \in SampleSocials
          /\ contact \in SampleContacts
       \/ /\ pc = "vanilla"
          /\ structure_info = NoStructure
          /\ branding = <<>>
          /\ social_media = EmptyDict
          /\ contact = EmptyDict
    /\ filename = <<>>
    /\ instructions = NoInstructions
    /\ files_section = <<>>
    /\ fpos = 0
    /\ prompt = <<>>
    /\ request = [endpoint |-> "none", data |-> EmptyDict]
    /\ project_type = <<>>
    /\ gemini = [kind |-> "none"]
    /\ github = [kind |-> "none"]
    /\ n_generate = 0
    /\ n_push = 0
    /\ response = NoResponse
    /\ ParserUnused
    /\ ImagesUnused
    /\ ThreadsUnused

SpecPrompt == InitPrompt /\ [][NextPrompt]_vars

(***************************************************************************)
(* Properties of the parser on emitted documents (SpecRoundTrip).          *)
(***************************************************************************)
\* The mapping a sequence of entries denotes (paths unique).
AsDict(es) ==
    [p \in {es[i].path : i \in DOMAIN es} |->
        (CHOOSE e \in {es[i] : i \in DOMAIN es} : e.path = p).content]

UniquePaths(es) == \A i, j \in DOMAIN es : i # j => es[i].path # es[j].path

ContentLines(e) == Split(e.content, NL)

\* Non-degenerate as the round-trip property words it: unique paths, no content
\* line containing FILE:, no content line starting with a fence.
NonDegenerate(es) ==
    /\ UniquePaths(es)
    /\ \A i \in DOMAIN es : \A k \in DOMAIN ContentLines(es[i]) :
          /\ ~Contains(ContentLines(es[i])[k], FILE_MARKER)
          /\ ~StartsWith(ContentLines(es[i])[k], FENCE)

\* What the parser needs on top of that: paths that are already in the form the
\* parser stores (one line, non-empty, no backtick, no FILE:, no blank at either
\* end), contents equal to their trimmed form, and no content line that starts
\* with a fence once trimmed.
Canonical(es) ==
    \A i \in DOMAIN es :
        /\ es[i].path # <<>>
        /\ es[i].path = Strip(es[i].path)
        /\ \A k \in DOMAIN es[i].path : es[i].path[k] \notin {BACKTICK, NL}
        /\ ~Contains(es[i].path, FILE_MARKER)
        /\ es[i].content = Strip(es[i].content)
        /\ \A k \in DOMAIN ContentLines(es[i]) :
              ~StartsWith(Strip(ContentLines(es[i])[k]), FENCE)

\* C1 as stated: for every non-degenerate file set, parsing the emitted document
\* returns the file set itself.
C1_RoundTrip_AsStated ==
    (pc = "returned" /\ NonDegenerate(origin)) => files = AsDict(origin)

\* C1 amended: for every non-degenerate file set whose paths and contents are
\* canonical (trimmed, path non-empty and free of backticks), parsing the emitted
\* document returns the file set itself: same keys, same content per key.
C1_RoundTrip ==
    (pc = "returned" /\ NonDegenerate(origin) /\ Canonical(origin))
        => files = AsDict(origin)

\* C1 witness: a two-file set with a multi-line content has been emitted, parsed
\* and returned unchanged.
C1_Witness ==
    /\ pc = "returned"
    /\ Len(origin) = 2
    /\ NonDegenerate(origin) /\ Canonical(origin)
    /\ \E i \in DOMAIN origin : Len(ContentLines(origin[i])) > 1
    /\ files = AsDict(origin)

(***************************************************************************)
(* Properties of the fallback (SpecParse).  A fenced block is counted on    *)
(* the text itself: the triple-backtick delimiters are taken left to right  *)
(* without overlap, the 1st opens block 1, the 2nd closes it, the 3rd opens *)
(* block 2, and so on, wherever they stand on their lines.                  *)
(***************************************************************************)
NoMarker(s) == ~Contains(s, FILE_MARKER)

\* The positions of the delimiters of s from position from on, in order.
RECURSIVE Delimiters(_, _)
Delimiters(s, from) ==
    LET p == Find(s, FENCE, from)
    IN  IF p = 0 THEN <<>> ELSE <<p>> \o Delimiters(s, p + 3)

BlockCount(s) == Len(Delimiters(s, 1)) \div 2

\* Block i of s: where its opening fence stands, and its content, that is what
\* lies between the end of the opening fence's line and the closing fence.
BlockOpener(s, i) == Delimiters(s, 1)[2 * i - 1]
BlockCloser(s, i) == Delimiters(s, 1)[2 * i]
BlockContent(s, i) ==
    LET eol == {k \in BlockOpener(s, i)..BlockCloser(s, i) : s[k] = NL}
    IN  IF eol = {} THEN <<>> ELSE SubSeq(s, Min(eol) + 1, BlockCloser(s, i) - 1)

\* The opening fence of block i is directly followed by nothing or by one of the
\* five tags, and then by the end of the line.
RecognisedOpener(s, i) ==
    \E tag \in {<<>>} \cup {FenceTags[t] : t \in DOMAIN FenceTags} :
        MatchAt(s, tag \o <<NL>>, BlockOpener(s, i) + 3)

FirstThreeBlocks(s) ==
    DictPut(DictPut(DictPut(EmptyDict, INDEX_HTML, Strip(BlockContent(s, 1))),
                    STYLE_CSS, Strip(BlockContent(s, 2))),
            SCRIPT_JS, Strip(BlockContent(s, 3)))

\* Every delimiter of s is a fence line of its own: it starts its line (blanks
\* aside) and is the only delimiter on it.
FencesOnOwnLines(s) ==
    \A k \in DOMAIN Split(s, NL) :
        LET line == Split(s, NL)[k]
        IN  Contains(line, FENCE) =>
                /\ StartsWith(Strip(line), FENCE)
                /\ Find(line, FENCE, Find(line, FENCE, 1) + 3) = 0

C4_ParseFailure ==
    (pc = "returned" /\ NoMarker(text) /\ BlockCount(text) < 3)
        => files = EmptyDict

\* C4 witness: a text with two well-formed blocks and no marker has been parsed,
\* and the result is empty.
C4_Witness ==
    /\ pc = "returned"
    /\ NoMarker(text)
    /\ BlockCount(text) = 2
    /\ \A i \in 1..2 : RecognisedOpener(text, i)
    /\ files = EmptyDict

(***************************************************************************)
(* Properties of the classifier (SpecClassify).                            *)
(***************************************************************************)
\* The categories in the order the claim gives, each with its keyword list.
PriorityOrder == <<"ecommerce", "web_application", "blog", "portfolio", "multi_page">>
KeywordsOf == <<ECOMMERCE_WORDS, AUTH_WORDS, BLOG_WORDS, PORTFOLIO_WORDS, MULTIPAGE_WORDS>>

\* The categories some keyword of which occurs in the lower-cased description.
Matching(d) ==
    {i \in DOMAIN PriorityOrder :
        \E k \in DOMAIN KeywordsOf[i] : Contains(Lower(d), KeywordsOf[i][k])}

\* C2: classification returns exactly one of the six categories: the first one in
\* the order ecommerce > web_application > blog > portfolio > multi_page that has a
\* keyword occurring in the lower-cased description, landing_page when none has
\* (the empty description included); ecommerce wins over the auth keywords.
C2_Classification ==
    pc = "classified" =>
        /\ structure_info.type \in
               {PriorityOrder[i] : i \in DOMAIN PriorityOrder} \cup {"landing_page"}
        /\ structure_info.type =
               IF Matching(description) = {} THEN "landing_page"
               ELSE PriorityOrder[Min(Matching(description))]
        /\ description = <<>> => structure_info.type = "landing_page"
        /\ {1, 2} \subseteq Matching(description) => structure_info.type = "ecommerce"

\* C2 witness: a description holding both an ecommerce keyword and an auth keyword
\* (the latter in capitals) has been classified as ecommerce.
C2_Witness ==
    /\ pc = "classified"
    /\ {1, 2} \subseteq Matching(description)
    /\ ~AnyWordIn(AUTH_WORDS, description)
    /\ structure_info.type = "ecommerce"

(***************************************************************************)
(* Properties of get_pexels_images (SpecImages).                           *)
(***************************************************************************)
\* The request for a keyword failed: it raised, or it was answered with a status
\* other than 200, or with a body that is no JSON.
RequestFailed(reply) == reply.kind \in {"network_error", "status", "bad_json"}

\* The records a request contributes: none when it failed, otherwise one per photo
\* up to the first photo that lacks a field.
WellFormed(reply) ==
    {j \in DOMAIN reply.photos :
        \A k \in 1..j : {"src", "photographer"} \subseteq DOMAIN reply.photos[k]}

RecordsOf(keyword, reply) ==
    IF RequestFailed(reply) THEN <<>>
    ELSE [j \in WellFormed(reply) |->
            [url |-> reply.photos[j].src, keyword |-> keyword,
             photographer |-> reply.photos[j].photographer]]

RECURSIVE RecordsUpTo(_)
RecordsUpTo(n) ==
    IF n = 0 THEN <<>> ELSE RecordsUpTo(n - 1) \o RecordsOf(http_log[n], replies[n])

\* C10: get_pexels_images never raises; with a missing API key it returns [] and
\* issues no request; otherwise it issues one request per keyword in keyword
\* order, a keyword whose request fails contributes zero records, and the loop
\* goes on with the next keyword.
C10_ImageFailureIsolation ==
    /\ pc # "pexels_raised"
    /\ KeyMissing(pexels_api_key) => (http_log = <<>> /\ image_urls = <<>>)
    /\ ~KeyMissing(pexels_api_key) =>
          /\ pc = "pexels_loop" => http_log = SubSeq(keywords, 1, kpos)
          /\ pc = "pexels_returned" => http_log = keywords
    /\ image_urls = RecordsUpTo(Len(http_log))
    /\ \A i \in DOMAIN replies :
          RequestFailed(replies[i]) =>
              Len(RecordsUpTo(i)) = Len(RecordsUpTo(i - 1))
    /\ \A w \in {keywords[i] : i \in DOMAIN keywords} :
          (\A i \in DOMAIN replies : http_log[i] = w => RequestFailed(replies[i]))
              => \A j \in DOMAIN image_urls : image_urls[j].keyword # w

\* C10 witness: with a key, three keywords were requested in order; the first
\* request raised, the second was answered 404, the third succeeded, and the
\* function returned the records of the third only.
C10_Witness ==
    /\ pc = "pexels_returned"
    /\ ~KeyMissing(pexels_api_key)
    /\ Len(keywords) = 3 /\ http_log = keywords
    /\ replies[1].kind = "network_error"
    /\ replies[2].kind = "status"
    /\ replies[3].kind = "ok"
    /\ Len(image_urls) = 2
    /\ \A j \in DOMAIN image_urls : image_urls[j].keyword = keywords[3]

(***************************************************************************)
(* Properties of the POST handlers (SpecRequest).                          *)
(***************************************************************************)
\* What the request asks for, read as the handlers read it.
SentDescription == Get(request.data, "description", <<>>)
SentType == Get(request.data, "type", VANILLA)
StringFields == IsString(SentDescription) /\ IsString(SentType)
DescriptionEmpty == Strip(SentDescription) = <<>>
DescriptionGiven == IsString(SentDescription) /\ ~DescriptionEmpty
TypeIsReact == IsString(SentType) /\ Lower(SentType) = REACT
TypeInvalid == IsString(SentType) /\ Lower(SentType) \notin {VANILLA, REACT}
Responded == pc = "responded"
Reported(status) == response.status = status /\ ~response.success

\* What the services would answer.
GenerationGivesFiles ==
    gemini.kind = "text" /\ parse_files_from_response(gemini.text) # EmptyDict
GenerationGivesNoFiles ==
    gemini.kind = "text" /\ parse_files_from_response(gemini.text) = EmptyDict
GenerationThrows == gemini.kind \in {"raises", "no_text"}
PushSucceeds == github.kind = "result" /\ github.result.success
PushReportsFailure == github.kind = "result" /\ ~github.result.success

\* C5: a POST /generate-and-push-to-github request with a non-empty description
\* and type react, for which the generation call returns text that parses to a
\* non-empty file set and the push reports success, is answered 200 with
\* success = true and project_type react.
C5_ReactPushSucceeds ==
    (/\ Responded
     /\ request.endpoint = PUSH_TO_GITHUB
     /\ DescriptionGiven /\ TypeIsReact
     /\ GenerationGivesFiles /\ PushSucceeds)
    => (response.status = 200 /\ response.success /\ response.project_type = REACT)

C7_PushRejectsType ==
    (/\ request.endpoint = PUSH_TO_GITHUB
     /\ DescriptionGiven /\ TypeInvalid)
    => /\ n_generate = 0
       /\ n_push = 0
       /\ Responded => Reported(400)

\* C8: on both POST endpoints, when the generation call returns text for which
\* parse_files_from_response yields the empty mapping, the response is 500 with
\* success = false, and the push call is never issued for that request.
C8_ParseFailureReported ==
    (n_generate = 1 /\ GenerationGivesNoFiles)
    => /\ n_push = 0
       /\ pc # "push"
       /\ Responded => Reported(500)

\* C8 witness: the push endpoint answered 500 after the parser returned the empty
\* mapping for the generated text, with no push issued.
C8_Witness ==
    /\ Responded
    /\ request.endpoint = PUSH_TO_GITHUB
    /\ n_generate = 1
    /\ GenerationGivesNoFiles
    /\ text = gemini.text
    /\ files = EmptyDict
    /\ Reported(500)
    /\ n_push = 0

\* C9: if the generation call throws or the push reports success: false, the
\* request ends with 500 and success = false; during the handling of one request
\* the generation call is issued at most once and the push call at most once.
C9_NoRetry ==
    /\ n_generate <= 1
    /\ n_push <= 1
    /\ (Responded /\ n_generate = 1 /\ GenerationThrows) => Reported(500)
    /\ (Responded /\ n_push = 1 /\ PushReportsFailure) => Reported(500)
    /\ (n_generate = 1 /\ GenerationThrows) => (Responded /\ n_push = 0)

\* C9 witness: the push reported success: false and the request ended with 500
\* after one generation call and one push call.
C9_Witness ==
    /\ Responded
    /\ request.endpoint = PUSH_TO_GITHUB
    /\ n_generate = 1
    /\ n_push = 1
    /\ PushReportsFailure
    /\ Reported(500)

(***************************************************************************)
(* Properties of the structure catalog (SpecClassify).                     *)
(***************************************************************************)
Classified == pc = "classified"
Paths(manifest) == {manifest[i] : i \in DOMAIN manifest}

\* C11: the needs_backend / needs_database flags returned with a classification
\* are true / true when the category is ecommerce or web_application and
\* false / false for blog, portfolio, multi_page and landing_page.
C11_BackendFlags ==
    Classified =>
        /\ structure_info.type \in {"ecommerce", "web_application"}
              => (structure_info.needs_backend /\ structure_info.needs_database)
        /\ structure_info.type \in {"blog", "portfolio", "multi_page", "landing_page"}
              => (~structure_info.needs_backend /\ ~structure_info.needs_database)

\* C11 witness: a description with an auth keyword and no ecommerce keyword was
\* classified web_application, with both flags set.
C11_Witness ==
    /\ Classified
    /\ structure_info.type = "web_application"
    /\ structure_info.needs_backend /\ structure_info.needs_database

\* The paths the portfolio is said to add to the multi-page pattern, and the
\* multi-page paths it does not have.
PortfolioAdded == <<
    <<"p", "r", "o", "j", "e", "c", "t", "s", ".", "h", "t", "m", "l">>,
    <<"p", "r", "o", "j", "e", "c", "t", "-", "d", "e", "t", "a", "i", "l", ".", "h", "t", "m", "l">>,
    <<"c", "s", "s", "/", "p", "r", "o", "j", "e", "c", "t", "s", ".", "c", "s", "s">>,
    <<"j", "s", "/", "p", "r", "o", "j", "e", "c", "t", "s", ".", "j", "s">>,
    <<"j", "s", "/", "f", "i", "l", "t", "e", "r", ".", "j", "s">> >>
PortfolioLeftOut == <<
    <<"s", "e", "r", "v", "i", "c", "e", "s", ".", "h", "t", "m", "l">>,
    <<"c", "s", "s", "/", "r", "e", "s", "p", "o", "n", "s", "i", "v", "e", ".", "c", "s", "s">>,
    <<"j", "s", "/", "n", "a", "v", "i", "g", "a", "t", "i", "o", "n", ".", "j", "s">> >>

\* C12 as stated: the portfolio manifest contains every path of the multi_page
\* manifest plus projects.html, project-detail.html, css/projects.css,
\* js/projects.js and js/filter.js.
C12_PortfolioExtends_AsStated ==
    (Classified /\ structure_info.type = "portfolio")
    => Paths(MULTI_PAGE_FILES) \cup Paths(PortfolioAdded) \subseteq Paths(structure_info.files)

\* C12: the portfolio manifest holds the multi_page paths other than
\* services.html, css/responsive.css and js/navigation.js, plus the five added
\* paths: ten paths, none twice.
C12_PortfolioManifest ==
    (Classified /\ structure_info.type = "portfolio")
    => /\ Paths(structure_info.files) =
              (Paths(MULTI_PAGE_FILES) \ Paths(PortfolioLeftOut)) \cup Paths(PortfolioAdded)
       /\ Paths(PortfolioLeftOut) \subseteq Paths(MULTI_PAGE_FILES)
       /\ Paths(PortfolioAdded) \cap Paths(MULTI_PAGE_FILES) = {}
       /\ Len(structure_info.files) = 10
       /\ Cardinality(Paths(structure_info.files)) = 10

\* C12 witness: a description with a portfolio keyword was classified portfolio;
\* its manifest has projects.html and has no services.html.
C12_Witness ==
    /\ Classified
    /\ structure_info.type = "portfolio"
    /\ PortfolioAdded[1] \in Paths(structure_info.files)
    /\ PortfolioLeftOut[1] \notin Paths(structure_info.files)

\* The path lists of the external-interface section.
Listed_landing_page == <<
    <<"i", "n", "d", "e", "x", ".", "h", "t", "m", "l">>,
    <<"s", "t", "y", "l", "e", ".", "c", "s", "s">>,
    <<"s", "c", "r", "i", "p", "t", ".", "j", "s">> >>
Listed_multi_page == <<
    <<"i", "n", "d", "e", "x", ".", "h", "t", "m", "l">>,
    <<"a", "b", "o", "u", "t", ".", "h", "t", "m", "l">>,
    <<"s", "e", "r", "v", "i", "c", "e", "s", ".", "h", "t", "m", "l">>,
    <<"c", "o", "n", "t", "a", "c", "t", ".", "h", "t", "m", "l">>,
    <<"c", "s", "s", "/", "s", "t", "y", "l", "e", ".", "c", "s", "s">>,
    <<"c", "s", "s", "/", "r", "e", "s", "p", "o", "n", "s", "i", "v", "e", ".", "c", "s", "s">>,
    <<"j", "s", "/", "s", "c", "r", "i", "p", "t", ".", "j", "s">>,
    <<"j", "s", "/", "n", "a", "v", "i", "g", "a", "t", "i", "o", "n", ".", "j", "s">> >>
Listed_blog == <<
    <<"i", "n", "d", "e", "x", ".", "h", "t", "m", "l">>,
    <<"a", "r", "t", "i", "c", "l", "e", ".", "h", "t", "m", "l">>,
    <<"a", "b", "o", "u", "t", ".", "h", "t", "m", "l">>,
    <<"c", "o", "n", "t", "a", "c", "t", ".", "h", "t", "m", "l">>,
    <<"c", "s", "s", "/", "s", "t", "y", "l", "e", ".", "c", "s", "s">>,
    <<"c", "s", "s", "/", "b", "l", "o", "g", ".", "c", "s", "s">>,
    <<"j", "s", "/", "s", "c", "r", "i", "p", "t", ".", "j", "s">>,
    <<"j", "s", "/", "b", "l", "o", "g", ".", "j", "s">> >>
Listed_web_application == <<
    <<"p", "u", "b", "l", "i", "c", "/", "i", "n", "d", "e", "x", ".", "h", "t", "m", "l">>,
    <<"p", "u", "b", "l", "i", "c", "/", "l", "o", "g", "i", "n", ".", "h", "t", "m", "l">>,
    <<"p", "u", "b", "l", "i", "c", "/", "s", "i", "g", "n", "u", "p", ".", "h", "t", "m", "l">>,
    <<"p", "u", "b", "l", "i", "c", "/", "d", "a", "s", "h", "b", "o", "a", "r", "d", ".", "h", "t", "m", "l">>,
    <<"p", "u", "b", "l", "i", "c", "/", "c", "s", "s", "/", "s", "t", "y", "l", "e", ".", "c", "s", "s">>,
    <<"p", "u", "b", "l", "i", "c", "/", "c", "s", "s", "/", "a", "u", "t", "h", ".", "c", "s", "s">>,
    <<"p", "u", "b", "l", "i", "c", "/", "c", "s", "s", "/", "d", "a", "s", "h", "b", "o", "a", "r", "d", ".", "c", "s", "s">>,
    <<"p", "u", "b", "l", "i", "c", "/", "j", "s", "/", "m", "a", "i", "n", ".", "j", "s">>,
    <<"p", "u", "b", "l", "i", "c", "/", "j", "s", "/", "a", "u", "t", "h", ".", "j", "s">>,
    <<"p", "u", "b", "l", "i", "c", "/", "j", "s", "/", "d", "a", "s", "h", "b", "o", "a", "r", "d", ".", "j", "s">>,
    <<"b", "a", "c", "k", "e", "n", "d", "/", "s", "e", "r", "v", "e", "r", ".", "j", "s">>,
    <<"b", "a", "c", "k", "e", "n", "d", "/", "r", "o", "u", "t", "e", "s", "/", "a", "u", "t", "h", ".", "j", "s">>,
    <<"b", "a", "c", "k", "e", "n", "d", "/", "r", "o", "u", "t", "e", "s", "/", "u", "s", "e", "r", "s", ".", "j", "s">>,
    <<"b", "a", "c", "k", "e", "n", "d", "/", "m", "o", "d", "e", "l", "s", "/", "U", "s", "e", "r", ".", "j", "s">>,
    <<"b", "a", "c", "k", "e", "n", "d", "/", "m", "i", "d", "d", "l", "e", "w", "a", "r", "e", "/", "a", "u", "t", "h", ".", "j", "s">>,
    <<"b", "a", "c", "k", "e", "n", "d", "/", "c", "o", "n", "f", "i", "g", "/", "d", "b", ".", "j", "s">>,
    <<"p", "a", "c", "k", "a", "g", "e", ".", "j", "s", "o", "n">>,
    <<".", "e", "n", "v", ".", "e", "x", "a", "m", "p", "l", "e">>,
    <<".", "g", "i", "t", "i", "g", "n", "o", "r", "e">>,
    <<"R", "E", "A", "D", "M", "E", ".", "m", "d">> >>

\* C13: the manifests returned for landing_page, multi_page, blog and
\* web_application are the listed paths, in the listed order, nothing added or
\* missing.
C13_ListedManifests ==
    Classified =>
        /\ structure_info.type = "landing_page" => structure_info.files = Listed_landing_page
        /\ structure_info.type = "multi_page" => structure_info.files = Listed_multi_page
        /\ structure_info.type = "blog" => structure_info.files = Listed_blog
        /\ structure_info.type = "web_application"
              => structure_info.files = Listed_web_application

\* C13 witness: a blog was classified and its manifest is the listed one, with
\* article.html second.
C13_Witness ==
    /\ Classified
    /\ structure_info.type = "blog"
    /\ structure_info.files = Listed_blog
    /\ structure_info.files[2] = <<"a", "r", "t", "i", "c", "l", "e", ".", "h", "t", "m", "l">>

(***************************************************************************)
(* Properties of extract_keywords_from_description (SpecKeywords).         *)
(***************************************************************************)
\* The ten topics in table order.
TopicOrder == <<
    <<"c", "o", "f", "f", "e", "e">>,
    <<"r", "e", "s", "t", "a", "u", "r", "a", "n", "t">>,
    <<"p", "o", "r", "t", "f", "o", "l", "i", "o">>,
    <<"p", "h", "o", "t", "o", "g", "r", "a", "p", "h", "y">>,
    <<"f", "i", "t", "n", "e", "s", "s">>,
    <<"t", "e", "c", "h">>,
    <<"f", "a", "s", "h", "i", "o", "n">>,
    <<"t", "r", "a", "v", "e", "l">>,
    <<"f", "o", "o", "d">>,
    <<"s", "h", "o", "p">> >>

\* The topics whose name occurs in the lower-cased description.
TopicsIn(d) == {i \in DOMAIN TopicOrder : Contains(Lower(d), TopicOrder[i])}

CoffeeKeywords == << <<"c", "o", "f", "f", "e", "e">>, <<"c", "a", "f", "e">>, <<"e", "s", "p", "r", "e", "s", "s", "o">> >>
DefaultKeywords == << <<"m", "o", "d", "e", "r", "n">>, <<"b", "u", "s", "i", "n", "e", "s", "s">>, <<"p", "r", "o", "f", "e", "s", "s", "i", "o", "n", "a", "l">> >>

\* C14: extract_keywords_from_description returns the first three keywords of the
\* first topic, in the order coffee, restaurant, portfolio, photography, fitness,
\* tech, fashion, travel, food, shop, whose name is a substring of the lower-cased
\* description, and modern, business, professional when no topic matches; a
\* description with both coffee and shop gives coffee, cafe, espresso.
C14_KeywordDerivation ==
    pc = "extracted" =>
        /\ [i \in DOMAIN KEYWORD_MAP |-> KEYWORD_MAP[i][1]] = TopicOrder
        /\ keywords = IF TopicsIn(description) = {} THEN DefaultKeywords
                      ELSE SubSeq(KEYWORD_MAP[Min(TopicsIn(description))][2], 1, 3)
        /\ Len(keywords) = 3
        /\ {1, 10} \subseteq TopicsIn(description) => keywords = CoffeeKeywords

\* C14 witness: a description with shop before Coffee (capitalised) gave coffee,
\* cafe, espresso.
C14_Witness ==
    /\ pc = "extracted"
    /\ {1, 10} \subseteq TopicsIn(description)
    /\ Find(description, TopicOrder[10], 1) = 1
    /\ ~Contains(description, TopicOrder[1])
    /\ keywords = CoffeeKeywords

(***************************************************************************)
(* Properties of concurrent requests (SpecConcurrent).                     *)
(***************************************************************************)
\* C15: under any interleaving of two requests, each request's parser state
\* (current file, in-code-block flag, line buffer, result mapping) and keyword
\* list are what that request alone would have: its scan state is the state of
\* the loop run alone over its own lines, and what it returns is what
\* parse_files_from_response and extract_keywords_from_description return for its
\* own text and description.
C15_RequestLocal ==
    pc = "threads" =>
        \A r \in Requests :
            /\ threads[r].pc = "scan" =>
                  /\ frames[r].lines = Split(threads[r].text, NL)
                  /\ ParserPart(frames[r]) = ScanLines(frames[r].lines, frames[r].idx)
            /\ threads[r].pc \in {"parse", "scan", "returned"} =>
                  threads[r].keywords =
                      extract_keywords_from_description(threads[r].description)
            /\ threads[r].pc = "returned" =>
                  threads[r].files = parse_files_from_response(threads[r].text)

\* C15 witness: request 1 has returned a file set and its keywords while request
\* 2, with another text and another description, is inside a code block in the
\* middle of its scan.
C15_Witness ==
    /\ pc = "threads"
    /\ threads[1].pc = "returned"
    /\ threads[1].files # EmptyDict
    /\ threads[2].pc = "scan"
    /\ threads[2].text # threads[1].text
    /\ threads[2].description # threads[1].description
    /\ frames[2].idx >= 2 /\ frames[2].idx < Len(frames[2].lines)
    /\ frames[2].in_code_block
    /\ threads[2].keywords # threads[1].keywords

(***************************************************************************)
(* Per-file instruction selection (SpecInstructions).                      *)
(***************************************************************************)
Instructed == pc = "instructed"

SERVER_JS == <<"s", "e", "r", "v", "e", "r", ".", "j", "s">>
BACKEND_SERVER_JS == <<"b", "a", "c", "k", "e", "n", "d", "/">> \o SERVER_JS

\* C16: build_file_instructions('backend/server.js') and
\* build_file_instructions('server.js') return the Express-server instruction
\* text, not the generic JavaScript instruction.
C16_ServerInstruction ==
    (Instructed /\ filename \in {SERVER_JS, BACKEND_SERVER_JS}) =>
        /\ instructions = INSTRUCTION_TEXTS.server
        /\ instructions # INSTRUCTION_TEXTS.js

\* C17: every path containing 'routes' is given the Express-route instruction
\* and every path containing 'models' the Mongoose-model instruction.
C17_RouteAndModelInstructions ==
    Instructed =>
        /\ Contains(filename, <<"r", "o", "u", "t", "e", "s">>) => instructions = INSTRUCTION_TEXTS.routes
        /\ Contains(filename, <<"m", "o", "d", "e", "l", "s">>) => instructions = INSTRUCTION_TEXTS.models

(***************************************************************************)
(* Composed prompts read by the parser (SpecPrompt).                       *)
(***************************************************************************)
PromptParsed == pc = "prompt_parsed"
Structured == structure_info # NoStructure

\* A value holds no FILE: marker and no line that starts (after blanks) with a fence.
HasFenceLine(v) == \E i \in DOMAIN Split(v, NL) : StartsWith(Strip(Split(v, NL)[i]), FENCE)
Plain(v) == ~Contains(v, FILE_MARKER) /\ ~HasFenceLine(v)

BrandingPlain == \A k \in DOMAIN branding : Plain(branding[k])
SocialPlain == \A k \in DOMAIN social_media : Plain(social_media[k])
ImagesPlain == \A i \in DOMAIN image_urls : Plain(image_urls[i].url) /\ Plain(image_urls[i].keyword)

\* The keys the claim expects: the manifest of the structure, or the three fixed names.
ExpectedKeys ==
    IF Structured THEN {structure_info.files[i] : i \in DOMAIN structure_info.files}
    ELSE {INDEX_HTML, STYLE_CSS, SCRIPT_JS}

\* C18 as stated: with branding and social values that hold no FILE: marker and no
\* fence line, the prompt of each of the six structures parses to exactly the
\* manifest's keys, and the vanilla prompt to index.html, style.css, script.js.
C18_PromptsParse_AsStated ==
    (PromptParsed /\ BrandingPlain /\ SocialPlain) => DOMAIN files = ExpectedKeys

\* C18: with a description, branding and social values (and, for the vanilla
\* prompt, image urls) that hold no FILE: marker and no fence line, the prompt of
\* each of the six structures parses to exactly the manifest's keys, and the
\* vanilla prompt to exactly index.html, style.css and script.js.
C18_PromptsParse ==
    (PromptParsed /\ Plain(description) /\ BrandingPlain /\ SocialPlain /\ ImagesPlain)
        => DOMAIN files = ExpectedKeys

\* A web_application prompt with a plain description and with branding and social
\* values given has been parsed to the keys of the web_application manifest.
C18_Witness ==
    /\ PromptParsed
    /\ description = D_plain
    /\ structure_info.type = "web_application"
    /\ "company_name" \in DOMAIN branding
    /\ BrandingPlain
    /\ social_media["instagram"] # <<>>
    /\ DOMAIN files = {WEBAPP_FILES[i] : i \in DOMAIN WEBAPP_FILES}

(***************************************************************************)
(* When the fallback runs (SpecParse).                                     *)
(***************************************************************************)
\* What the primary pass has found when the loop ends: files, with the last file saved.
PrimaryMapping == Flush(ParserState)

\* C19: when the primary FILE:-marker pass yields at least one file, the mapping
\* returned is exactly the primary pass's mapping: the fallback is not run and no
\* fenced block is assigned by position to index.html, style.css or script.js.
C19_FallbackOnlyWhenEmpty ==
    [][(pc = "scan" /\ pc' = "returned" /\ DOMAIN PrimaryMapping # {})
          => files' = PrimaryMapping]_vars

\* A text with a FILE: marker and three blocks the fallback would take has been
\* parsed: the result is the primary pass's file, none of the three fixed names.
C19_Witness ==
    /\ pc = "returned"
    /\ Contains(text, FILE_MARKER)
    /\ BlockCount(text) >= 3
    /\ \A i \in 1..3 : RecognisedOpener(text, i)
    /\ Method2(text) = FirstThreeBlocks(text)
    /\ files = Flush(ScanLines(lines, Len(lines)))
    /\ DOMAIN files # {}
    /\ DOMAIN files \cap {INDEX_HTML, STYLE_CSS, SCRIPT_JS} = {}

(***************************************************************************)
(* Which fenced spans the fallback takes (SpecParse).                      *)
(***************************************************************************)
FiveTags == {<<"h", "t", "m", "l">>, <<"c", "s", "s">>, <<"j", "a", "v", "a", "s", "c", "r", "i", "p", "t">>, <<"j", "s">>, <<"j", "s", "o", "n">>}

\* The fence at p is directly followed by the tag and the end of the line.
TaggedAt(s, p, tag) == MatchAt(s, FENCE \o tag \o <<NL>>, p)

UntaggedAt(s, p) == TaggedAt(s, p, <<>>)
FiveTagAt(s, p) == \E tag \in FiveTags : TaggedAt(s, p, tag)

\* Where the content of a span opened at p starts: after the end of p's line.
ContentStart(s, p) == Find(s, <<NL>>, p) + 1

\* A span opens at p: a fence, untagged or with one of the five tags, and a
\* further fence after the end of its line.
SpanAt(s, p) ==
    /\ MatchAt(s, FENCE, p)
    /\ UntaggedAt(s, p) \/ FiveTagAt(s, p)
    /\ Find(s, FENCE, ContentStart(s, p)) # 0

\* The spans of s from position from on, left to right without overlap: each with
\* the position of its opening fence and what lies between that fence's line and
\* the next fence.
RECURSIVE Spans(_, _)
Spans(s, from) ==
    LET opens == {p \in from..Len(s) : SpanAt(s, p)}
    IN  IF opens = {} THEN <<>>
        ELSE LET p == Min(opens)
                 q == Find(s, FENCE, ContentStart(s, p))
             IN  <<[opener |-> p, content |-> SubSeq(s, ContentStart(s, p), q - 1)]>>
                 \o Spans(s, q + 3)

\* Block i (the i-th pair of delimiters) opens with a fence that carries a tag
\* other than the five: its line goes on after the fence with something else.
OtherTagBlock(s, i) ==
    /\ ~UntaggedAt(s, BlockOpener(s, i))
    /\ ~FiveTagAt(s, BlockOpener(s, i))

\* The number of blocks of s that open with one of the five tags.
TaggedBlockCount(s) == Cardinality({i \in 1..BlockCount(s) : FiveTagAt(s, BlockOpener(s, i))})

\* C20 as stated: only blocks tagged html, css, javascript, js or json count, so a
\* text without FILE: marker and with fewer than three such blocks parses to the
\* empty mapping, untagged blocks and blocks with other tags notwithstanding.
C20_OnlyTaggedBlocks_AsStated ==
    (pc = "returned" /\ NoMarker(text) /\ TaggedBlockCount(text) < 3) => files = EmptyDict

\* C20 amended: the fallback takes, left to right and without overlap, each span
\* that opens with a fence directly followed by an optional tag among html, css,
\* javascript, js, json and the end of the line, and that ends at the next fence.
\* Untagged spans are counted toward the required three and assigned like tagged
\* ones; a fence followed by any other tag opens no span, so that what stands
\* between it and the next fence is neither counted nor assigned.
C20_FallbackSpans ==
    (pc = "returned" /\ NoMarker(text)) =>
        LET spans == Spans(text, 1)
            fences == Delimiters(text, 1)
        IN  /\ \A i \in 1..(Len(fences) \div 2) :
                   (~UntaggedAt(text, fences[2 * i - 1]) /\ ~FiveTagAt(text, fences[2 * i - 1])) =>
                       \A k \in DOMAIN spans : spans[k].opener # fences[2 * i - 1]
            /\ IF Len(spans) >= 3
               THEN files = DictPut(DictPut(DictPut(EmptyDict,
                                INDEX_HTML, Strip(spans[1].content)),
                                STYLE_CSS, Strip(spans[2].content)),
                                SCRIPT_JS, Strip(spans[3].content))
               ELSE files = EmptyDict

\* An untagged block, two tagged blocks and a block tagged otherwise have been
\* parsed: the untagged block is index.html, the content of the fourth block is
\* in no file.
C20_Witness ==
    /\ pc = "returned"
    /\ NoMarker(text)
    /\ BlockCount(text) = 4
    /\ UntaggedAt(text, BlockOpener(text, 1))
    /\ FiveTagAt(text, BlockOpener(text, 2))
    /\ FiveTagAt(text, BlockOpener(text, 3))
    /\ OtherTagBlock(text, 4)
    /\ TaggedBlockCount(text) = 2
    /\ INDEX_HTML \in DOMAIN files
    /\ files[INDEX_HTML] = Strip(BlockContent(text, 1))
    /\ files[INDEX_HTML] # <<>>
    /\ Strip(BlockContent(text, 4)) \notin {files[k] : k \in DOMAIN files}

(***************************************************************************)
(* The primary pass, line by line (SpecMarkers).                           *)
(***************************************************************************)
\* The loop is about to read a line that contains the marker.
ReadsMarker == pc = "scan" /\ idx < Len(lines) /\ Contains(lines[idx + 1], FILE_MARKER)

\* What follows the first marker of the line, up to the end of the line.
AfterMarker(line) == Tail_From(line, Find(line, FILE_MARKER, 1) + Len(FILE_MARKER))

\* v up to the next marker in it, all of v when it has none.
UpToMarker(v) ==
    LET p == Find(v, FILE_MARKER, 1)
    IN  IF p = 0 THEN v ELSE SubSeq(v, 1, p - 1)

\* Backticks removed, surrounding whitespace trimmed.
Cleaned(v) == Strip(RemoveChar(v, BACKTICK))

\* The previous file is stored exactly when it has a path and buffered lines.
PreviousFlushed ==
    files' = IF current_file \notin {NoFile, <<>>} /\ Len(code_content) > 0
             THEN [p \in DOMAIN files \cup {current_file} |->
                      IF p = current_file THEN Strip(Join(code_content, NL)) ELSE files[p]]
             ELSE files

\* C21 as stated: on a line containing FILE: the previous file is flushed, the
\* current path becomes the whole remainder of the line after FILE: without
\* backticks and surrounding whitespace, the buffer is emptied and inCodeBlock
\* is false.
C21_MarkerLine_AsStated ==
    [][ReadsMarker =>
          /\ PreviousFlushed
          /\ current_file' = Cleaned(AfterMarker(lines[idx + 1]))
          /\ code_content' = <<>>
          /\ in_code_block' = FALSE]_vars

\* C21: on a line containing FILE: the previous file is flushed (stored only if
\* lines were buffered), the current path becomes what stands between the first
\* FILE: of the line and the next FILE: on it (the whole remainder when there
\* is none) without backticks and surrounding whitespace, the buffer is emptied
\* and inCodeBlock is false.
C21_MarkerLine ==
    [][ReadsMarker =>
          /\ PreviousFlushed
          /\ current_file' = Cleaned(UpToMarker(AfterMarker(lines[idx + 1])))
          /\ code_content' = <<>>
          /\ in_code_block' = FALSE]_vars

\* The marker line with two markers has been read after a file with buffered
\* lines in an open block: that file is stored and the path is "a".
C21_Witness ==
    /\ pc = "scan"
    /\ idx > 0
    /\ lines[idx] = L_marker_a
    /\ current_file = <<"a">>
    /\ code_content = <<>>
    /\ ~in_code_block
    /\ DOMAIN files = {<<"b">>}
    /\ files[<<"b">>] = <<"x">>

\* Marker lines, and fence lines (a line with the marker is never a fence line).
IsMarkerLine(line) == \E i \in 1..Len(line) : MatchAt(line, FILE_MARKER, i)
IsFenceLine(line) == ~IsMarkerLine(line) /\ StartsWith(Strip(line), FENCE)

\* The positions of the marker lines of ls, and the path each of them names.
MarkersOf(ls) == {m \in 1..Len(ls) : IsMarkerLine(ls[m])}
PathIn(ls, m) == Cleaned(UpToMarker(AfterMarker(ls[m])))

\* The last line of the section a marker at m opens: the line before the next
\* marker, or the last line of the input.
SectionEndIn(ls, m) ==
    LET later == {j \in MarkersOf(ls) : j > m}
    IN  IF later = {} THEN Len(ls) ELSE Min(later) - 1

\* A code block is open at line k of the section of the marker at m: an odd
\* number of fence lines stands between the marker and k.
OpenIn(ls, m, k) == Cardinality({j \in (m + 1)..(k - 1) : IsFenceLine(ls[j])}) % 2 = 1

\* The lines of the section of the marker at m, up to line e, that are not fence
\* lines and stand in an open code block, in input order.
CollectedIn(ls, m, e) ==
    LET at == {k \in (m + 1)..e : ~IsFenceLine(ls[k]) /\ OpenIn(ls, m, k)}
    IN  [i \in 1..Cardinality(at) |->
            ls[CHOOSE k \in at : Cardinality({j \in at : j <= k}) = i]]

\* The marker at m names a path and its section has collected lines.
StoresIn(ls, m) == PathIn(ls, m) # <<>> /\ CollectedIn(ls, m, SectionEndIn(ls, m)) # <<>>

\* The same for the lines the loop runs over.
MarkerPositions == MarkersOf(lines)
PathAt(m) == PathIn(lines, m)
SectionEnd(m) == SectionEndIn(lines, m)
OpenAt(m, k) == OpenIn(lines, m, k)
Collected(m, e) == CollectedIn(lines, m, e)
Stores(m) == StoresIn(lines, m)

\* The last marker among the first n lines, 0 when there is none.
LastMarker(n) ==
    LET seen == {m \in MarkerPositions : m <= n}
    IN  IF seen = {} THEN 0 ELSE CHOOSE m \in seen : \A j \in seen : j <= m

\* The sections the loop has closed after idx lines (all of them at the end).
ClosedSections ==
    IF pc = "returned" THEN MarkerPositions
    ELSE {m \in MarkerPositions : m < LastMarker(idx)}

\* C22: in the primary pass the buffer of the current file holds, verbatim and
\* in input order, exactly the lines after its marker that are neither marker
\* nor fence lines and stand in an open code block; every stored content is the
\* trimmed join of such lines of one section, so fence lines, lines outside a
\* code block and lines before the first marker are in no content; the last
\* file is flushed at the end of the input.
C22_ContentLines ==
    pc \in {"scan", "returned"} =>
        /\ code_content = IF LastMarker(idx) = 0 \/ PathAt(LastMarker(idx)) = <<>>
                          THEN <<>>
                          ELSE Collected(LastMarker(idx), idx)
        /\ (pc = "scan" \/ \E m \in MarkerPositions : Stores(m)) =>
              \A p \in DOMAIN files :
                  \E m \in ClosedSections :
                      /\ PathAt(m) = p
                      /\ Stores(m)
                      /\ files[p] = Strip(Join(Collected(m, SectionEnd(m)), NL))
        /\ (pc = "returned" /\ LastMarker(idx) # 0 /\ Stores(LastMarker(idx))) =>
              /\ current_file \in DOMAIN files
              /\ files[current_file] = Strip(Join(code_content, NL))

\* A line in a block ahead of no marker, a file with two collected lines, a
\* closing fence and a line outside the block: the file holds the two lines.
C22_Witness ==
    /\ pc = "returned"
    /\ lines = <<L_marker_b, L_fence, L_x, L_y, L_fence, L_y>>
    /\ code_content = <<L_x, L_y>>
    /\ DOMAIN files = {<<"b">>}
    /\ files[<<"b">>] = <<"x", NL, " ", "y">>

(***************************************************************************)
(* The blocks of the structured prompt (SpecPrompt).                       *)
(***************************************************************************)
\* get_structured_prompt has returned.
Composed == pc = "composed" /\ Structured

\* Where the line h stands in the prompt (the newline ahead of it), 0 if nowhere.
HeaderAt(h) == Find(prompt, <<NL>> \o h \o <<NL>>, 1)

\* The lines of the prompt under the line h, up to the next empty line.
LinesUnder(h) ==
    LET start == HeaderAt(h) + Len(h) + 2
        gap   == Find(prompt, <<NL, NL>>, start - 1)
        block == SubSeq(prompt, start, IF gap = 0 THEN Len(prompt) ELSE gap - 1)
    IN  IF block = <<>> THEN <<>> ELSE Split(block, NL)

NAVIGATION_HEADER == <<"N", "A", "V", "I", "G", "A", "T", "I", "O", "N", " ", "(", "i", "n", "c", "l", "u", "d", "e", " ", "o", "n", " ", "A", "L", "L", " ", "p", "a", "g", "e", "s", ")", ":">>
NAVIGATION_INTRO == <<"C", "r", "e", "a", "t", "e", " ", "c", "o", "n", "s", "i", "s", "t", "e", "n", "t", " ", "n", "a", "v", "i", "g", "a", "t", "i", "o", "n", " ", "w", "i", "t", "h", " ", "t", "h", "e", "s", "e", " ", "p", "a", "g", "e", "s", ":">>
AUTH_PAGE_NAMES == {<<"L", "o", "g", "i", "n">>, <<"S", "i", "g", "n", "u", "p">>, <<"S", "i", "g", "n", " ", "U", "p">>}

\* The list of the navigation block: the lines under its introduction.
NavigationList == LinesUnder(NAVIGATION_INTRO)

\* At most the first five html paths of the manifest whose page name is not an
\* auth page name, in manifest order.
ListedPages(files_list) ==
    LET shown == SelectSeq(files_list,
                           LAMBDA f : EndsWith(f, <<".", "h", "t", "m", "l">>) /\ PageName(f) \notin AUTH_PAGE_NAMES)
    IN  SubSeq(shown, 1, IF Len(shown) < 5 THEN Len(shown) ELSE 5)

NavigationEntry(f) == <<"-", " ">> \o PageName(f) \o <<" ", "(", "l", "i", "n", "k", "s", " ", "t", "o", " ">> \o f \o <<")">>

\* C23: the navigation block is in the prompt exactly when the category is not
\* landing_page; it lists, in manifest order, at most the first five html paths
\* of the manifest whose page name is not Login, Signup or Sign Up, each as
\* "- <name> (links to <path>)", and no login or signup page is listed.
C23_NavigationBlock ==
    Composed =>
        /\ (HeaderAt(NAVIGATION_HEADER) # 0) <=> (structure_info.type # "landing_page")
        /\ (HeaderAt(NAVIGATION_INTRO) # 0) <=> (structure_info.type # "landing_page")
        /\ structure_info.type # "landing_page" =>
              LET pages == ListedPages(structure_info.files)
              IN  /\ HeaderAt(NAVIGATION_INTRO) = HeaderAt(NAVIGATION_HEADER) + Len(NAVIGATION_HEADER) + 1
                  /\ NavigationList = [i \in 1..Len(pages) |-> NavigationEntry(pages[i])]
                  /\ \A i \in DOMAIN NavigationList :
                        /\ ~Contains(Lower(NavigationList[i]), <<"l", "o", "g", "i", "n">>)
                        /\ ~Contains(Lower(NavigationList[i]), <<"s", "i", "g", "n", "u", "p">>)

\* The prompt of the ecommerce structure: eight html pages, two of them auth
\* pages, five listed, the last of them the checkout page.
C23_Witness ==
    /\ Composed
    /\ structure_info.type = "ecommerce"
    /\ Len(NavigationList) = 5
    /\ NavigationList[1] = <<"-", " ", "I", "n", "d", "e", "x", " ", "(", "l", "i", "n", "k", "s", " ", "t", "o", " ", "i", "n", "d", "e", "x", ".", "h", "t", "m", "l", ")">>
    /\ NavigationList[3] = <<"-", " ", "P", "r", "o", "d", "u", "c", "t", " ", "D", "e", "t", "a", "i", "l", " ", "(", "l", "i", "n", "k", "s", " ", "t", "o", " ", "p", "r", "o", "d", "u", "c", "t", "-", "d", "e", "t", "a", "i", "l", ".", "h", "t", "m", "l", ")">>
    /\ NavigationList[5] = <<"-", " ", "C", "h", "e", "c", "k", "o", "u", "t", " ", "(", "l", "i", "n", "k", "s", " ", "t", "o", " ", "c", "h", "e", "c", "k", "o", "u", "t", ".", "h", "t", "m", "l", ")">>

BRANDING_HEADER == <<"B", "R", "A", "N", "D", "I", "N", "G", " ", "(", "u", "s", "e", " ", "t", "h", "r", "o", "u", "g", "h", "o", "u", "t", " ", "A", "L", "L", " ", "f", "i", "l", "e", "s", ")", ":">>

\* The label of the line of each branding field.
BRANDING_LABELS ==
    [company_name |-> <<"-", " ", "C", "o", "m", "p", "a", "n", "y", " ", "N", "a", "m", "e", ":", " ">>, tagline |-> <<"-", " ", "T", "a", "g", "l", "i", "n", "e", ":", " ">>,
     primary_color |-> <<"-", " ", "P", "r", "i", "m", "a", "r", "y", " ", "C", "o", "l", "o", "r", ":", " ">>, secondary_color |-> <<"-", " ", "S", "e", "c", "o", "n", "d", "a", "r", "y", " ", "C", "o", "l", "o", "r", ":", " ">>]

BrandingBlock == LinesUnder(BRANDING_HEADER)

\* The branding block has a line for the field.
Rendered(field) == \E i \in DOMAIN BrandingBlock : StartsWith(BrandingBlock[i], BRANDING_LABELS[field])

\* C24: the branding block renders only the fields that are present: a field
\* that is absent or empty (an empty tagline, say) has no line in the block.
C24_BrandingOnlyPresent ==
    Composed =>
        \A field \in DOMAIN BRANDING_LABELS :
            Rendered(field) <=> (field \in DOMAIN branding /\ branding[field] # <<>>)

SOCIAL_HEADER == <<"S", "O", "C", "I", "A", "L", " ", "M", "E", "D", "I", "A", " ", "(", "a", "d", "d", " ", "t", "o", " ", "f", "o", "o", "t", "e", "r", ")", ":">>

\* The label of the line of each platform.
SOCIAL_LABELS ==
    [instagram |-> <<"I", "n", "s", "t", "a", "g", "r", "a", "m", ":", " ">>, twitter |-> <<"T", "w", "i", "t", "t", "e", "r", ":", " ">>, linkedin |-> <<"L", "i", "n", "k", "e", "d", "i", "n", ":", " ">>,
     facebook |-> <<"F", "a", "c", "e", "b", "o", "o", "k", ":", " ">>, email |-> <<"E", "m", "a", "i", "l", ":", " ">>, phone |-> <<"P", "h", "o", "n", "e", ":", " ">>]

SocialBlock == LinesUnder(SOCIAL_HEADER)

\* The platforms of the call that are filled in.
Filled == {k \in DOMAIN social_media : social_media[k] # <<>>}

\* C25: the social-media block has exactly one line for each platform whose
\* value is non-empty and no line for a platform whose value is empty, and the
\* whole block, header included, is absent when all platforms are empty.
C25_SocialBlock ==
    Composed =>
        /\ (HeaderAt(SOCIAL_HEADER) # 0) <=> (Filled # {})
        /\ Filled # {} =>
              /\ Len(SocialBlock) = Cardinality(Filled)
              /\ \A k \in Filled :
                    Cardinality({i \in DOMAIN SocialBlock :
                                    SocialBlock[i] = SOCIAL_LABELS[k] \o social_media[k]}) = 1
        /\ \A k \in DOMAIN SOCIAL_LABELS \ Filled :
              ~Contains(prompt, <<NL>> \o SOCIAL_LABELS[k])

\* Instagram and email filled in, the four others empty: two lines.
C25_Witness ==
    /\ Composed
    /\ Filled = {"instagram", "email"}
    /\ SocialBlock = <<<<"I", "n", "s", "t", "a", "g", "r", "a", "m", ":", " ", "a", "c", "m", "e">>, <<"E", "m", "a", "i", "l", ":", " ", "h", "i", "@", "a", "c", "m", "e", ".", "i", "o">>>>

InsideOpenBlock(m) ==
    LET before == {j \in MarkerPositions : j < m}
    IN  before # {} /\ OpenAt(CHOOSE j \in before : \A k \in before : k <= j, m)

\* The marker lines read so far that stand inside an open code block.
MarkersInBlocks == {m \in MarkerPositions : m <= idx /\ InsideOpenBlock(m)}

\* C26: a line containing FILE: is a marker even inside an open code block: the
\* file that was open is closed with the lines buffered up to the marker, the
\* block is no longer open, and the lines that follow up to the block's closing
\* fence are added to no file while that fence opens a block of the new path.
C26_MarkerInsideBlock ==
    pc \in {"scan", "returned"} =>
        \A m \in MarkersInBlocks :
            LET prev  == LastMarker(m - 1)
                fences == {j \in (m + 1)..idx : IsFenceLine(lines[j]) /\ LastMarker(j) = m}
            IN  \* the file that was open holds the lines up to the marker, if it is
                \* not stored again by a later section
                /\ (Stores(prev) /\ \A j \in MarkerPositions : (j > prev /\ j <= idx /\ Stores(j)) => PathAt(j) # PathAt(prev)) =>
                      /\ PathAt(prev) \in DOMAIN files
                      /\ files[PathAt(prev)] = Strip(Join(Collected(prev, m - 1), NL))
                \* up to the next fence line nothing is buffered
                /\ (LastMarker(idx) = m /\ fences = {}) => (~in_code_block /\ code_content = <<>>)
                \* the next fence line opens a block
                /\ (LastMarker(idx) = m /\ Cardinality(fences) = 1) => in_code_block

\* A file with one buffered line, a marker inside its block, a line added to no
\* file, and the fence that closed the block now opening one for the new path.
C26_Witness ==
    /\ pc = "scan"
    /\ lines = <<L_marker_b, L_fence, L_x, L_marker_a, L_y, L_fence>>
    /\ idx = 6
    /\ in_code_block
    /\ current_file = <<"a">>
    /\ code_content = <<>>
    /\ DOMAIN files = {<<"b">>}
    /\ files[<<"b">>] = <<"x">>

\* v has no whitespace character at either end.
Trimmed(v) == v = <<>> \/ (v[1] \notin Whitespace /\ v[Len(v)] \notin Whitespace)

\* The marker lines read so far, and the non-empty paths they name.
MarkersRead == {m \in MarkerPositions : m <= idx}
PathsRead == {PathAt(m) : m \in MarkersRead} \ {<<>>}

\* C27: every key of the mapping is non-empty, holds no backtick and has no
\* whitespace at either end; every value has no whitespace at either end; a
\* marker whose path is empty creates no entry: the keys are among the
\* non-empty paths the markers name.
C27_KeysAndValues ==
    pc \in {"scan", "returned"} =>
        /\ \A k \in DOMAIN files :
              /\ k # <<>>
              /\ \A i \in DOMAIN k : k[i] # BACKTICK
              /\ Trimmed(k)
              /\ Trimmed(files[k])
        /\ (pc = "scan" \/ \E m \in MarkerPositions : Stores(m)) => DOMAIN files \subseteq PathsRead
        /\ (pc = "returned" /\ PathsRead = {} /\ BlockCount(text) < 3) => DOMAIN files = {}

\* A marker line with text ahead of the marker, backticks and blanks, a line
\* with blanks at both ends, and a marker whose path is empty: one entry with
\* the key "a" and the value "y".
C27_Witness ==
    /\ pc = "returned"
    /\ lines = <<L_marker_a, L_fence, L_y, L_marker_none>>
    /\ DOMAIN files = {<<"a">>}
    /\ files[<<"a">>] = <<"y">>

\* The closed sections that have buffered lines under a path.
StoringSections == {m \in ClosedSections : Stores(m)}

\* C29: when several markers name the same path the mapping has one entry for
\* it, and its content is that of the last of those markers that had buffered
\* lines: the earlier content is replaced, not extended.
C29_LastMarkerWins ==
    (pc = "scan" \/ (pc = "returned" /\ \E m \in MarkerPositions : Stores(m))) =>
        LET storing == StoringSections
        IN  /\ DOMAIN files = {PathAt(m) : m \in storing}
            /\ \A p \in DOMAIN files :
                  LET named == {m \in storing : PathAt(m) = p}
                      last  == CHOOSE m \in named : \A j \in named : j <= m
                  IN  files[p] = Strip(Join(Collected(last, SectionEnd(last)), NL))

\* Two markers for the path "b", the first with the line x and the second with
\* the line y: the entry holds y alone.
C29_Witness ==
    /\ pc = "returned"
    /\ lines = <<L_marker_b, L_fence, L_x, L_marker_b, L_fence, L_y>>
    /\ DOMAIN files = {<<"b">>}
    /\ files[<<"b">>] = <<"y">>

(***************************************************************************)
(* Markers without content in a request (SpecRequest).                     *)
(***************************************************************************)
\* The generation call has returned a text and the handler has parsed it.
TextParsed == pc \in {"push", "responded"} /\ n_generate = 1 /\ gemini.kind = "text"

\* The markers of the generated text whose section has buffered lines.
StoringMarkers ==
    LET ls == Split(text, NL)
    IN  {m \in MarkersOf(ls) : StoresIn(ls, m)}

\* C28: a marker for which no line was buffered produces no entry, so the
\* mapping can hold fewer files than the text has markers; with at least one
\* file stored the handler does not report a parse failure and, when the steps
\* after parsing do not fail, answers with success.
C28_FewerFilesThanMarkers ==
    (TextParsed /\ StoringMarkers # {}) =>
        /\ DOMAIN files = {PathIn(Split(text, NL), m) : m \in StoringMarkers}
        /\ response # Failure(500, "Failed to parse files from AI response")
        /\ (pc = "responded" /\ (request.endpoint = GENERATE_WEBSITE
                                  \/ (github.kind = "result" /\ github.result.success)))
              => response = Success(project_type)

\* A push request whose generated text has two markers, the first without a
\* block: one file, and the request succeeds.
C28_Witness ==
    /\ TextParsed
    /\ pc = "responded"
    /\ request.endpoint = PUSH_TO_GITHUB
    /\ Cardinality(MarkersOf(Split(text, NL))) = 2
    /\ Cardinality(StoringMarkers) = 1
    /\ DOMAIN files = {T_a}
    /\ n_push = 1
    /\ response = Success(project_type)

====
